---- MODULE Spec2Model ----
(***************************************************************************)
(* Beethoven: protocol adapter and dispatch framework for cross-program    *)
(* invocations (CPIs).  One behaviour of this module is one incoming call: *)
(* an account slice is parsed (directly by a protocol's account parser, or *)
(* through protocol detection), on the swap path the protocol-specific     *)
(* bytes are parsed into a typed payload, and the adapter's CPIs are       *)
(* issued one at a time; each CPI is an opaque blocking call that returns  *)
(* success or a failure value.                                             *)
(***************************************************************************)
EXTENDS Integers, Sequences, FiniteSets, TLC

VARIABLES
    op,            \* which path the caller takes: "parse", "deposit", "swap" (detection alone),
                   \* "process" (entry glue), "free" (free functions), "context", "adapter",
                   \* "entrypoint" (process_instruction)
    entry,         \* the function the caller calls on that path
    proto,         \* for op = "parse": the protocol whose account parser is called
    enabled,       \* the set of protocols compiled in (cargo features)
    accounts,      \* the account slice handed in by the runtime
    instruction_data,   \* the bytes handed to the entry glue (to process_instruction on
                        \* the "entrypoint" path, to swap::process on the "process" path)
    extra_data,         \* the protocol-specific bytes that follow the two amounts
    in_amount,          \* swap input amount (u64 as four 16-bit limbs, least significant first)
    minimum_out_amount, \* swap minimum output amount (same representation)
    swap_data,               \* the typed swap payload (tagged by protocol)
    amount,        \* deposit amount (u64 as four 16-bit limbs, least significant first)
    signer_seeds,  \* the signer seeds passed by the caller
    pc,            \* position of the call
    ctx,           \* the parsed account context (tagged by protocol)
    i,             \* index of the Kamino tail-reserve loop
    cpis,          \* the CPIs issued so far, in order
    cpi_results,   \* what each issued CPI returned
    result         \* what the entry returns to its caller

vars == <<op, entry, proto, enabled, accounts, instruction_data, extra_data, in_amount, minimum_out_amount,
          swap_data, amount, signer_seeds, pc, ctx, i, cpis, cpi_results, result>>

----------------------------------------------------------------------------
(* Bounds of the model *)

\* longest run of consecutive Kamino-owned accounts offered after the fixed prefix
MaxRun == 14
\* length of the arbitrary owner pattern that follows such a run
MaxSuffix == 2
\* longest slice that carries no owner pattern
MaxPrefix == 20
\* longest sequence of protocol-specific bytes that is enumerated exhaustively
MaxExtra == 2

----------------------------------------------------------------------------
(* Program addresses *)

\* the address made of 32 zero bytes
ZeroAddress == "11111111111111111111111111111111"

KAMINO_LEND_PROGRAM_ID == ZeroAddress
JUPITER_EARN_PROGRAM_ID == ZeroAddress
PERENA_PROGRAM_ID == "NUMERUNsFCP3kuNmWZuXtm1AaQCPj9uw6Guv2Ekoi5P"
SOLFI_PROGRAM_ID == "SoLFiHG9TfgtdUXUjWAxi3LtvYuFyDLVhBWxdMZxyCe"
SOLFI_V2_PROGRAM_ID == "SV2EYYJyRz2YhfXwXnhNAevDEui5Q6yrfyo13WtupPF"
MANIFEST_PROGRAM_ID == "MNFSTqtC93rEfYHB6hF82sKdZpUDFWkViLByLd1k1Ms"
HEAVEN_PROGRAM_ID == "HEAVENoP2qxoeuF8Dj2oT1GHEnu49U5mJYkdeC8BAX2o"
ALDRIN_PROGRAM_ID == "AMM55ShdkoGRB5jVYPjWziwk8m5MpwyDgsMWHaMSQWH6"
ALDRIN_V2_PROGRAM_ID == "CURVGoZn8zycx6FXwwevgBTB2gVvdbGTEpvMJDbgs2t4"
FUTARCHY_PROGRAM_ID == "FUTARELBfJfQ8RDGhg1wdhddq1odMAJUePHFuBYfUxKq"
GAMMA_PROGRAM_ID == "GAMMA7meSFWaBXF25oSUgmGRwaW6sCMFLmBNiMSdbHVT"

REFRESH_RESERVE_DISCRIMINATOR == <<2, 218, 138, 235, 79, 201, 25, 102>>
REFRESH_OBLIGATION_DISCRIMINATOR == <<33, 132, 147, 228, 151, 192, 72, 89>>
DEPOSIT_RESERVE_LIQUIDITY_AND_OBLIGATION_COLLATERAL_V2_DISCRIMINATOR == <<216, 224, 191, 27, 204, 151, 102, 175>>
DEPOSIT_DISCRIMINATOR == <<242, 35, 198, 137, 82, 225, 242, 182>>

MAX_REFRESH_OBLIGATION_ACCOUNTS == 15

\* the cap of the reserve scan (the literal 13 of the loop condition)
MaxReserveAccounts == 13

SwapProtocols == {"Perena", "SolFi", "SolFiV2", "Manifest", "Heaven", "Aldrin", "AldrinV2", "Futarchy", "Gamma"}
DepositProtocols == {"Kamino", "Jupiter"}
Protocols == SwapProtocols \cup DepositProtocols

ProgramId(p) ==
    CASE p = "Perena" -> PERENA_PROGRAM_ID
      [] p = "SolFi" -> SOLFI_PROGRAM_ID
      [] p = "SolFiV2" -> SOLFI_V2_PROGRAM_ID
      [] p = "Manifest" -> MANIFEST_PROGRAM_ID
      [] p = "Heaven" -> HEAVEN_PROGRAM_ID
      [] p = "Aldrin" -> ALDRIN_PROGRAM_ID
      [] p = "AldrinV2" -> ALDRIN_V2_PROGRAM_ID
      [] p = "Futarchy" -> FUTARCHY_PROGRAM_ID
      [] p = "Gamma" -> GAMMA_PROGRAM_ID
      [] p = "Kamino" -> KAMINO_LEND_PROGRAM_ID
      [] p = "Jupiter" -> JUPITER_EARN_PROGRAM_ID

----------------------------------------------------------------------------
(* Results *)

Pending == [status |-> "Pending", err |-> ""]
Ok == [status |-> "Ok", err |-> ""]
Err(e) == [status |-> "Err", err |-> e]

NotEnoughAccountKeys == "NotEnoughAccountKeys"
InvalidAccountData == "InvalidAccountData"
InvalidInstructionData == "InvalidInstructionData"

\* failure values an external program may return from a CPI
CpiErrors == {"Custom(6001)", "InvalidArgument"}
CpiOutcomes == {Ok} \cup {Err(e) : e \in CpiErrors}

----------------------------------------------------------------------------
(* Account contexts: the positional destructuring of each parser *)

PerenaFields == <<"perena_program", "pool", "in_mint", "out_mint", "in_trader", "out_trader", "in_vault", "out_vault", "numeraire_config", "payer", "token_program", "token_2022_program">>
SolFiFields == <<"solfi_program", "token_transfer_authority", "market_account", "base_vault", "quote_vault", "user_base_ata", "user_quote_ata", "token_program", "instructions_sysvar">>
SolFiV2Fields == <<"solfi_v2_program", "token_transfer_authority", "market_account", "oracle_account", "config_account", "base_vault", "quote_vault", "user_base_ata", "user_quote_ata", "base_mint", "quote_mint", "base_token_program", "quote_token_program", "instructions_sysvar">>
ManifestFields == <<"manifest_program", "payer", "owner", "market", "system_program", "trader_base", "trader_quote", "base_vault", "quote_vault", "token_program_base", "base_mint", "token_program_quote", "quote_mint", "global", "global_vault">>
HeavenFields == <<"heaven_program", "token_a_owner", "token_b_owner", "ata_program", "system_program", "pool_state", "user", "token_a_mint", "token_b_mint", "user_token_a_account", "user_token_b_account", "pool_token_a_account", "pool_token_b_account", "protocol_config", "ix_sysvar", "chainlink_id", "chainlink_sol_usd_feed">>
AldrinFields == <<"aldrin_program", "pool", "pool_signer", "pool_mint", "base_token_vault", "quote_token_vault", "fee_pool_token_account", "wallet_authority", "user_base_token_account", "user_quote_token_account", "token_program">>
AldrinV2Fields == <<"aldrin_v2_program", "pool", "pool_signer", "pool_mint", "base_token_vault", "quote_token_vault", "fee_pool_token_account", "wallet_authority", "user_base_token_account", "user_quote_token_account", "curve", "token_program">>
FutarchyFields == <<"futarchy_program", "dao", "user_base_account", "user_quote_account", "amm_base_vault", "amm_quote_vault", "user", "token_program", "event_authority", "program">>
GammaFields == <<"gamma_program", "payer", "authority", "amm_config", "pool_state", "input_token_account", "output_token_account", "input_vault", "output_vault", "input_token_program", "output_token_program", "input_token_mint", "output_token_mint", "observation_state">>
KaminoFields == <<"kamino_lending_program", "owner", "obligation", "lending_market", "lending_market_authority", "reserve", "reserve_liquidity_mint", "reserve_liquidity_supply", "reserve_collateral_mint", "reserve_destination_deposit_collateral", "user_source_liquidity", "placeholder_user_destination_collateral", "collateral_token_program", "liquidity_token_program", "instruction_sysvar_account", "obligation_farm_user_state", "reserve_farm_state", "farms_program", "scope_oracle">>
JupiterFields == <<"lending_program", "signer", "depositor_token_account", "recipient_token_account", "mint", "lending_admin", "lending", "f_token_mint", "supply_token_reserves_liquidity", "lending_supply_position_on_liquidity", "rate_model", "vault", "liquidity", "liquidity_program", "rewards_rate_model", "token_program", "associated_token_program", "system_program">>

\* the names bound by the slice pattern of p's parser, in pattern order
FieldNames(p) ==
    CASE p = "Perena" -> PerenaFields
      [] p = "SolFi" -> SolFiFields
      [] p = "SolFiV2" -> SolFiV2Fields
      [] p = "Manifest" -> ManifestFields
      [] p = "Heaven" -> HeavenFields
      [] p = "Aldrin" -> AldrinFields
      [] p = "AldrinV2" -> AldrinV2Fields
      [] p = "Futarchy" -> FutarchyFields
      [] p = "Gamma" -> GammaFields
      [] p = "Kamino" -> KaminoFields
      [] p = "Jupiter" -> JupiterFields

\* the minimum account counts the specification lists
ClaimedMinimum(p) ==
    CASE p = "Perena" -> 12 [] p = "SolFi" -> 9 [] p = "SolFiV2" -> 14
      [] p = "Manifest" -> 15 [] p = "Heaven" -> 17 [] p = "Aldrin" -> 11
      [] p = "AldrinV2" -> 12 [] p = "Futarchy" -> 10 [] p = "Gamma" -> 14
      [] p = "Kamino" -> 19 [] p = "Jupiter" -> 18

\* (mutation) Kamino's guard also asks for one account of the tail
LenCheckWithTail(p) == IF p = "Kamino" THEN 20 ELSE ClaimedMinimum(p)

\* (mutation) the guard written with `<=`
LenCheckOffByOne(p) == ClaimedMinimum(p) + 1

\* the explicit `accounts.len() < N` guard in front of the pattern
LenCheck(p) ==
    CASE p = "Perena" -> 12
      [] p = "SolFi" -> 9
      [] p = "SolFiV2" -> 14
      [] p = "Manifest" -> 15
      [] p = "Heaven" -> 17
      [] p = "Aldrin" -> 11
      [] p = "AldrinV2" -> 12
      [] p = "Futarchy" -> 10
      [] p = "Gamma" -> 14
      [] p = "Kamino" -> 19
      [] p = "Jupiter" -> 18

Range(s) == {s[j] : j \in 1..Len(s)}
PosOf(names, n) == CHOOSE j \in 1..Len(names) : names[j] = n

\* (mutation) the pattern binds the second and third name in exchanged order
BindExchanged(accts, pos) == accts[IF pos = 2 THEN 3 ELSE IF pos = 3 THEN 2 ELSE pos]

\* the account a slice pattern binds to the name at position pos
Bind(accts, pos) == accts[pos]

\* (mutation) a slice pattern without the trailing `..`
PatternExact(accts, names) == Len(accts) = Len(names)

\* the slice pattern `[a, b, .., rest @ ..]` matches slices with at least its names
PatternMatches(accts, names) == Len(accts) >= Len(names)

NoFields == [n \in {} |-> 0]
NoCtx == [tag |-> "None", fields |-> NoFields, reserve_accounts |-> <<>>]

\* (mutation) the scan without the `break`: later owned accounts are counted too
RECURSIVE ScanReservesNoBreak(_, _)
ScanReservesNoBreak(remaining_accounts, total_reserve_accounts) ==
    IF remaining_accounts = <<>> THEN total_reserve_accounts
    ELSE IF Head(remaining_accounts).owner = KAMINO_LEND_PROGRAM_ID
            /\ total_reserve_accounts < MaxReserveAccounts
         THEN ScanReservesNoBreak(Tail(remaining_accounts), total_reserve_accounts + 1)
         ELSE ScanReservesNoBreak(Tail(remaining_accounts), total_reserve_accounts)

\* the Kamino reserve scan: count accounts while owned by the lending program
\* and the count is below the cap, and stop at the first one that is not
RECURSIVE ScanReserves(_, _)
ScanReserves(remaining_accounts, total_reserve_accounts) ==
    IF remaining_accounts = <<>> THEN total_reserve_accounts
    ELSE IF Head(remaining_accounts).owner = KAMINO_LEND_PROGRAM_ID
            /\ total_reserve_accounts < MaxReserveAccounts
         THEN ScanReserves(Tail(remaining_accounts), total_reserve_accounts + 1)
         ELSE total_reserve_accounts

\* <Protocol>Accounts::try_from: the result and, on success, the context
AccountsTryFrom(p, accts) ==
    IF Len(accts) < LenCheck(p) THEN [res |-> Err(NotEnoughAccountKeys), ctx |-> NoCtx]
    ELSE IF ~PatternMatches(accts, FieldNames(p)) THEN [res |-> Err(NotEnoughAccountKeys), ctx |-> NoCtx]
    ELSE LET names == FieldNames(p)
             remaining_accounts == SubSeq(accts, Len(names) + 1, Len(accts))
         IN [res |-> Ok,
             ctx |-> [tag |-> p,
                      fields |-> [n \in Range(names) |-> Bind(accts, PosOf(names, n))],
                      reserve_accounts |->
                          IF p = "Kamino"
                          THEN SubSeq(remaining_accounts, 1, ScanReserves(remaining_accounts, 0))
                          ELSE <<>>]]

----------------------------------------------------------------------------
(* Protocol detection *)

\* (mutation) the SolFiV2 arm compares against SolFi's address
SwapArmsCopyPaste == <<
    [feature |-> "Perena", id |-> PERENA_PROGRAM_ID, parser |-> "Perena", variant |-> "Perena"],
    [feature |-> "SolFi", id |-> SOLFI_PROGRAM_ID, parser |-> "SolFi", variant |-> "SolFi"],
    [feature |-> "SolFiV2", id |-> SOLFI_PROGRAM_ID, parser |-> "SolFiV2", variant |-> "SolFiV2"],
    [feature |-> "Manifest", id |-> MANIFEST_PROGRAM_ID, parser |-> "Manifest", variant |-> "Manifest"],
    [feature |-> "Heaven", id |-> HEAVEN_PROGRAM_ID, parser |-> "Heaven", variant |-> "Heaven"],
    [feature |-> "Aldrin", id |-> ALDRIN_PROGRAM_ID, parser |-> "Aldrin", variant |-> "Aldrin"],
    [feature |-> "AldrinV2", id |-> ALDRIN_V2_PROGRAM_ID, parser |-> "AldrinV2", variant |-> "AldrinV2"],
    [feature |-> "Futarchy", id |-> FUTARCHY_PROGRAM_ID, parser |-> "Futarchy", variant |-> "Futarchy"],
    [feature |-> "Gamma", id |-> GAMMA_PROGRAM_ID, parser |-> "Gamma", variant |-> "Gamma"] >>

\* the arms of try_from_swap_context, in source order
SwapArms == <<
    [feature |-> "Perena", id |-> PERENA_PROGRAM_ID, parser |-> "Perena", variant |-> "Perena"],
    [feature |-> "SolFi", id |-> SOLFI_PROGRAM_ID, parser |-> "SolFi", variant |-> "SolFi"],
    [feature |-> "SolFiV2", id |-> SOLFI_V2_PROGRAM_ID, parser |-> "SolFiV2", variant |-> "SolFiV2"],
    [feature |-> "Manifest", id |-> MANIFEST_PROGRAM_ID, parser |-> "Manifest", variant |-> "Manifest"],
    [feature |-> "Heaven", id |-> HEAVEN_PROGRAM_ID, parser |-> "Heaven", variant |-> "Heaven"],
    [feature |-> "Aldrin", id |-> ALDRIN_PROGRAM_ID, parser |-> "Aldrin", variant |-> "Aldrin"],
    [feature |-> "AldrinV2", id |-> ALDRIN_V2_PROGRAM_ID, parser |-> "AldrinV2", variant |-> "AldrinV2"],
    [feature |-> "Futarchy", id |-> FUTARCHY_PROGRAM_ID, parser |-> "Futarchy", variant |-> "Futarchy"],
    [feature |-> "Gamma", id |-> GAMMA_PROGRAM_ID, parser |-> "Gamma", variant |-> "Gamma"] >>

\* (mutation) the two deposit arms in the other order
DepositArmsSwapped == <<
    [feature |-> "Jupiter", id |-> JUPITER_EARN_PROGRAM_ID, parser |-> "Jupiter", variant |-> "Jupiter"],
    [feature |-> "Kamino", id |-> KAMINO_LEND_PROGRAM_ID, parser |-> "Kamino", variant |-> "Kamino"] >>

\* the arms of try_from_deposit_context, in source order
DepositArms == <<
    [feature |-> "Kamino", id |-> KAMINO_LEND_PROGRAM_ID, parser |-> "Kamino", variant |-> "Kamino"],
    [feature |-> "Jupiter", id |-> JUPITER_EARN_PROGRAM_ID, parser |-> "Jupiter", variant |-> "Jupiter"] >>

\* (mutation) a failing parser lets the chain go on to the next arm
RECURSIVE DetectFromFallThrough(_, _, _, _)
DetectFromFallThrough(arms, k, accts, en) ==
    IF k > Len(arms) THEN [res |-> Err(InvalidAccountData), ctx |-> NoCtx]
    ELSE IF arms[k].feature \in en /\ accts[1].address = arms[k].id
            /\ AccountsTryFrom(arms[k].parser, accts).res = Ok
         THEN LET r == AccountsTryFrom(arms[k].parser, accts)
              IN [res |-> Ok, ctx |-> [r.ctx EXCEPT !.tag = arms[k].variant]]
         ELSE DetectFromFallThrough(arms, k + 1, accts, en)

\* the chain of `if address_eq(..) { let ctx = X::try_from(accounts)?; return Ok(Variant(ctx)) }`
RECURSIVE DetectFrom(_, _, _, _)
DetectFrom(arms, k, accts, en) ==
    IF k > Len(arms) THEN [res |-> Err(InvalidAccountData), ctx |-> NoCtx]
    ELSE IF arms[k].feature \in en /\ accts[1].address = arms[k].id
         THEN LET r == AccountsTryFrom(arms[k].parser, accts)
              IN IF r.res = Ok
                 THEN [res |-> Ok, ctx |-> [r.ctx EXCEPT !.tag = arms[k].variant]]
                 ELSE r
         ELSE DetectFrom(arms, k + 1, accts, en)

TryFromContext(arms, accts, en) ==
    IF accts = <<>> THEN [res |-> Err(NotEnoughAccountKeys), ctx |-> NoCtx]
    ELSE DetectFrom(arms, 1, accts, en)

try_from_swap_context(accts, en) == TryFromContext(SwapArms, accts, en)
try_from_deposit_context(accts, en) == TryFromContext(DepositArms, accts, en)

----------------------------------------------------------------------------
(* CPI construction *)

\* InstructionAccount::writable / readonly / writable_signer
writable(a) == [address |-> a, is_writable |-> TRUE, is_signer |-> FALSE]
readonly(a) == [address |-> a, is_writable |-> FALSE, is_signer |-> FALSE]
writable_signer(a) == [address |-> a, is_writable |-> TRUE, is_signer |-> TRUE]

\* (mutation) the bytes are written most significant first (`to_be_bytes`)
to_be_bytes(a) == [j \in 1..8 |-> IF j % 2 = 1 THEN a[(10 - j) \div 2] \div 256
                                               ELSE a[(10 - j) \div 2] % 256]

\* u64::to_le_bytes on a value held as four 16-bit limbs, least significant first
to_le_bytes(a) == [j \in 1..8 |-> IF j % 2 = 1 THEN a[(j + 1) \div 2] % 256
                                               ELSE a[j \div 2] \div 256]

\* (mutation) the call is issued with `invoke`, without the seeds
InvocationUnsigned(program_id, metas, infos, data, seeds) ==
    [program_id |-> program_id, accounts |-> metas, account_infos |-> infos,
     data |-> data, signers |-> <<>>]

\* what invoke_signed is handed: the instruction view, the account views, the seeds
Invocation(program_id, metas, infos, data, seeds) ==
    [program_id |-> program_id, accounts |-> metas, account_infos |-> infos,
     data |-> data, signers |-> seeds]

\* Kamino, refresh of the reserve deposited into
RefreshReserveAccounts(c) ==
    << writable(c.fields.reserve.address),
       readonly(c.fields.kamino_lending_program.address),
       readonly(c.fields.kamino_lending_program.address),
       readonly(c.fields.kamino_lending_program.address),
       readonly(c.fields.scope_oracle.address) >>

RefreshReserveAccountInfos(c) ==
    << c.fields.reserve,
       c.fields.kamino_lending_program,
       c.fields.kamino_lending_program,
       c.fields.kamino_lending_program,
       c.fields.scope_oracle >>

\* Kamino, refresh of one tail reserve (the body of `for reserve in ctx.reserve_accounts`)
TailRefreshAccounts(c, reserve) ==
    << writable(reserve.address),
       readonly(c.fields.kamino_lending_program.address),
       readonly(c.fields.kamino_lending_program.address),
       readonly(c.fields.kamino_lending_program.address),
       readonly(c.fields.scope_oracle.address) >>

TailRefreshAccountInfos(c, reserve) ==
    << c.fields.reserve,
       c.fields.kamino_lending_program,
       c.fields.kamino_lending_program,
       c.fields.kamino_lending_program,
       c.fields.scope_oracle >>

\* Kamino, refresh of the obligation: the 15-slot uninitialised buffer after the writes
Uninit == [address |-> "uninit", is_writable |-> FALSE, is_signer |-> FALSE]

ObligationAccountsBuffer(c) ==
    [j \in 1..MAX_REFRESH_OBLIGATION_ACCOUNTS |->
        IF j = 1 THEN writable(c.fields.obligation.address)
        ELSE IF j = 2 THEN readonly(c.fields.lending_market.address)
        ELSE IF j - 2 <= Len(c.reserve_accounts) THEN readonly(c.reserve_accounts[j - 2].address)
        ELSE Uninit]

\* (mutation) the whole buffer is passed instead of the written part
obligation_accounts_len_full(c) == MAX_REFRESH_OBLIGATION_ACCOUNTS

obligation_accounts_len(c) == 2 + Len(c.reserve_accounts)

\* slice::from_raw_parts(obligation_accounts_ptr, obligation_accounts_len)
ObligationAccountsSlice(c) == SubSeq(ObligationAccountsBuffer(c), 1, obligation_accounts_len(c))

\* (mutation) the array is filled with the lending market's view
ObligationAccountInfosMarketFilled(c) ==
    [j \in 1..MAX_REFRESH_OBLIGATION_ACCOUNTS |->
        IF j = 1 THEN c.fields.obligation
        ELSE IF j > 2 /\ j - 2 <= Len(c.reserve_accounts) THEN c.reserve_accounts[j - 2]
        ELSE c.fields.lending_market]

ObligationAccountInfos(c) ==
    [j \in 1..MAX_REFRESH_OBLIGATION_ACCOUNTS |->
        IF j = 2 THEN c.fields.lending_market
        ELSE IF j > 2 /\ j - 2 <= Len(c.reserve_accounts) THEN c.reserve_accounts[j - 2]
        ELSE c.fields.obligation]

\* Kamino, the deposit call
KaminoDepositAccountsMeta(c) ==
    << writable_signer(c.fields.owner.address),
       writable(c.fields.obligation.address),
       readonly(c.fields.lending_market.address),
       readonly(c.fields.lending_market_authority.address),
       writable(c.fields.reserve.address),
       readonly(c.fields.reserve_liquidity_mint.address),
       writable(c.fields.reserve_liquidity_supply.address),
       writable(c.fields.reserve_collateral_mint.address),
       writable(c.fields.reserve_destination_deposit_collateral.address),
       writable(c.fields.user_source_liquidity.address),
       readonly(c.fields.placeholder_user_destination_collateral.address),
       readonly(c.fields.collateral_token_program.address),
       readonly(c.fields.liquidity_token_program.address),
       readonly(c.fields.instruction_sysvar_account.address),
       writable(c.fields.obligation_farm_user_state.address),
       writable(c.fields.reserve_farm_state.address),
       readonly(c.fields.farms_program.address) >>

KaminoDepositAccountInfos(c) ==
    << c.fields.owner,
       c.fields.obligation,
       c.fields.lending_market,
       c.fields.lending_market_authority,
       c.fields.reserve,
       c.fields.reserve_liquidity_mint,
       c.fields.reserve_liquidity_supply,
       c.fields.reserve_collateral_mint,
       c.fields.reserve_destination_deposit_collateral,
       c.fields.user_source_liquidity,
       c.fields.placeholder_user_destination_collateral,
       c.fields.collateral_token_program,
       c.fields.liquidity_token_program,
       c.fields.instruction_sysvar_account,
       c.fields.obligation_farm_user_state,
       c.fields.reserve_farm_state,
       c.fields.farms_program >>

KaminoDepositData(a) ==
    DEPOSIT_RESERVE_LIQUIDITY_AND_OBLIGATION_COLLATERAL_V2_DISCRIMINATOR \o to_le_bytes(a)

\* Jupiter Earn, the deposit call
JupiterDepositAccountsMeta(c) ==
    << writable_signer(c.fields.signer.address),
       writable(c.fields.depositor_token_account.address),
       writable(c.fields.recipient_token_account.address),
       readonly(c.fields.mint.address),
       readonly(c.fields.lending_admin.address),
       writable(c.fields.lending.address),
       writable(c.fields.f_token_mint.address),
       writable(c.fields.supply_token_reserves_liquidity.address),
       writable(c.fields.lending_supply_position_on_liquidity.address),
       readonly(c.fields.rate_model.address),
       writable(c.fields.vault.address),
       writable(c.fields.liquidity.address),
       writable(c.fields.liquidity_program.address),
       readonly(c.fields.rewards_rate_model.address),
       readonly(c.fields.token_program.address),
       readonly(c.fields.associated_token_program.address),
       readonly(c.fields.system_program.address) >>

JupiterDepositAccountInfos(c) ==
    << c.fields.signer,
       c.fields.depositor_token_account,
       c.fields.recipient_token_account,
       c.fields.mint,
       c.fields.lending_admin,
       c.fields.lending,
       c.fields.f_token_mint,
       c.fields.supply_token_reserves_liquidity,
       c.fields.lending_supply_position_on_liquidity,
       c.fields.rate_model,
       c.fields.vault,
       c.fields.liquidity,
       c.fields.liquidity_program,
       c.fields.rewards_rate_model,
       c.fields.token_program,
       c.fields.associated_token_program,
       c.fields.system_program >>

JupiterDepositData(a) == DEPOSIT_DISCRIMINATOR \o to_le_bytes(a)

----------------------------------------------------------------------------
(* Swap payloads: the protocol-specific bytes and their typed form *)

PERENA_SWAP_DISCRIMINATOR == <<104, 104, 131, 86, 161, 189, 180, 216>>
SOLFI_SWAP_DISCRIMINATOR == 7
SOLFI_V2_SWAP_DISCRIMINATOR == 7
MANIFEST_SWAP_DISCRIMINATOR == 13
ALDRIN_SWAP_DISCRIMINATOR == <<248, 198, 158, 145, 225, 117, 135, 200>>
ALDRIN_V2_SWAP_DISCRIMINATOR == <<248, 198, 158, 145, 225, 117, 135, 200>>
FUTARCHY_SWAP_DISCRIMINATOR == <<248, 198, 158, 145, 225, 117, 135, 200>>
GAMMA_SWAP_DISCRIMINATOR == <<239, 82, 192, 187, 160, 26, 223, 223>>
BUY_DISCRIMINATOR == <<102, 6, 61, 18, 1, 218, 235, 234>>
SELL_DISCRIMINATOR == <<51, 230, 133, 164, 1, 127, 131, 173>>

\* Heaven: the longest event the adapter forwards
MAX_EVENT_LEN == 256

\* no payload has been parsed or supplied
NoData == [tag |-> "None"]

\* the two outcomes of a payload parser
Parsed(d) == [res |-> Ok, data |-> d]
Rejected(e) == [res |-> Err(e), data |-> NoData]

\* `data[k] != 0` and `flag as u8`
NonZero(byte) == byte # 0
as_u8(flag) == IF flag THEN 1 ELSE 0

\* the tail of a byte slice, `&data[k..]`
SliceFrom(bytes, k) == SubSeq(bytes, k + 1, Len(bytes))

PerenaSwapDataTryFrom(bytes) ==
    IF Len(bytes) < 2 THEN Rejected(InvalidInstructionData)
    ELSE Parsed([tag |-> "Perena", in_index |-> bytes[1], out_index |-> bytes[2]])

SolFiSwapDataTryFrom(bytes) ==
    IF Len(bytes) = 0 THEN Rejected(InvalidInstructionData)
    ELSE Parsed([tag |-> "SolFi", is_quote_to_base |-> NonZero(bytes[1])])

SolFiV2SwapDataTryFrom(bytes) ==
    IF Len(bytes) = 0 THEN Rejected(InvalidInstructionData)
    ELSE Parsed([tag |-> "SolFiV2", is_quote_to_base |-> NonZero(bytes[1])])

\* (mutation) the length check asks for one byte too many (`data.len() < 3`)
ManifestSwapDataTryFromStrict(bytes) ==
    IF Len(bytes) < 3 THEN Rejected(InvalidInstructionData)
    ELSE Parsed([tag |-> "Manifest", is_base_in |-> NonZero(bytes[1]),
                 is_exact_in |-> NonZero(bytes[2])])

ManifestSwapDataTryFrom(bytes) ==
    IF Len(bytes) < 2 THEN Rejected(InvalidInstructionData)
    ELSE Parsed([tag |-> "Manifest", is_base_in |-> NonZero(bytes[1]),
                 is_exact_in |-> NonZero(bytes[2])])

HeavenSwapDataTryFrom(bytes) ==
    IF Len(bytes) = 0 THEN Rejected(InvalidInstructionData)
    ELSE IF bytes[1] = 0 THEN Parsed([tag |-> "Heaven", direction |-> "Buy", event |-> SliceFrom(bytes, 1)])
    ELSE IF bytes[1] = 1 THEN Parsed([tag |-> "Heaven", direction |-> "Sell", event |-> SliceFrom(bytes, 1)])
    ELSE Rejected(InvalidInstructionData)

AldrinSwapDataTryFrom(bytes) ==
    IF Len(bytes) = 0 THEN Rejected(InvalidInstructionData)
    ELSE IF bytes[1] = 0 THEN Parsed([tag |-> "Aldrin", side |-> "Bid"])
    ELSE IF bytes[1] = 1 THEN Parsed([tag |-> "Aldrin", side |-> "Ask"])
    ELSE Rejected(InvalidInstructionData)

AldrinV2SwapDataTryFrom(bytes) ==
    IF Len(bytes) = 0 THEN Rejected(InvalidInstructionData)
    ELSE IF bytes[1] = 0 THEN Parsed([tag |-> "AldrinV2", side |-> "Bid"])
    ELSE IF bytes[1] = 1 THEN Parsed([tag |-> "AldrinV2", side |-> "Ask"])
    ELSE Rejected(InvalidInstructionData)

FutarchySwapDataTryFrom(bytes) ==
    IF Len(bytes) = 0 THEN Rejected(InvalidInstructionData)
    ELSE IF bytes[1] = 0 THEN Parsed([tag |-> "Futarchy", swap_type |-> "Buy"])
    ELSE IF bytes[1] = 1 THEN Parsed([tag |-> "Futarchy", swap_type |-> "Sell"])
    ELSE Rejected(InvalidInstructionData)

\* SwapData::Gamma(()) : the unit payload
GammaData == [tag |-> "Gamma"]

\* (mutation) the SolFiV2 arm is a copy of the SolFi arm: it wraps SolFi's payload
SwapDataTryFromCopyPaste(p, bytes) ==
    CASE p = "Perena" -> PerenaSwapDataTryFrom(bytes)
      [] p = "SolFi" -> SolFiSwapDataTryFrom(bytes)
      [] p = "SolFiV2" -> SolFiSwapDataTryFrom(bytes)
      [] p = "Manifest" -> ManifestSwapDataTryFrom(bytes)
      [] p = "Heaven" -> HeavenSwapDataTryFrom(bytes)
      [] p = "Aldrin" -> AldrinSwapDataTryFrom(bytes)
      [] p = "AldrinV2" -> AldrinV2SwapDataTryFrom(bytes)
      [] p = "Futarchy" -> FutarchySwapDataTryFrom(bytes)
      [] p = "Gamma" -> Parsed(GammaData)
      [] OTHER -> Rejected(InvalidAccountData)

\* the payload parser of one protocol (the arm bodies of try_from_swap_data)
SwapDataTryFrom(p, bytes) ==
    CASE p = "Perena" -> PerenaSwapDataTryFrom(bytes)
      [] p = "SolFi" -> SolFiSwapDataTryFrom(bytes)
      [] p = "SolFiV2" -> SolFiV2SwapDataTryFrom(bytes)
      [] p = "Manifest" -> ManifestSwapDataTryFrom(bytes)
      [] p = "Heaven" -> HeavenSwapDataTryFrom(bytes)
      [] p = "Aldrin" -> AldrinSwapDataTryFrom(bytes)
      [] p = "AldrinV2" -> AldrinV2SwapDataTryFrom(bytes)
      [] p = "Futarchy" -> FutarchySwapDataTryFrom(bytes)
      [] p = "Gamma" -> Parsed(GammaData)
      [] OTHER -> Rejected(InvalidAccountData)

\* (mutation) the parser is chosen by looking at the program account again
try_from_swap_data_by_account(c, bytes, en) ==
    LET a == c.fields[FieldNames(c.tag)[1]].address
        named == {p \in en : ProgramId(p) = a}
    IN IF named # {} THEN SwapDataTryFrom(CHOOSE p \in named : TRUE, bytes)
       ELSE Rejected(InvalidAccountData)

\* SwapContext::try_from_swap_data: `match self`, one arm per compiled-in protocol
try_from_swap_data(c, bytes, en) ==
    IF c.tag \in en THEN SwapDataTryFrom(c.tag, bytes)
    ELSE Rejected(InvalidAccountData)

----------------------------------------------------------------------------
(* Swap CPIs: the instruction bytes and the accounts of each adapter *)

\* InstructionAccount::readonly_signer
readonly_signer(a) == [address |-> a, is_writable |-> FALSE, is_signer |-> TRUE]

\* a byte of a buffer that has not been written
UninitByte == -1

\* MaybeUninit::<[u8; n]>::uninit()
MaybeUninit(n) == [j \in 1..n |-> UninitByte]

\* core::ptr::copy_nonoverlapping(src, ptr.add(off), count)
copy_nonoverlapping(src, buf, off, count) ==
    [j \in 1..Len(buf) |-> IF j > off /\ j <= off + count THEN src[j - off] ELSE buf[j]]

\* core::ptr::write(ptr.add(off), byte)
ptr_write(buf, off, byte) == [j \in 1..Len(buf) |-> IF j = off + 1 THEN byte ELSE buf[j]]

\* core::slice::from_raw_parts(ptr, len)
from_raw_parts(buf, len) == SubSeq(buf, 1, len)

\* u32::to_le_bytes
u32_to_le_bytes(n) ==
    <<n % 256, (n \div 256) % 256, (n \div 65536) % 256, (n \div 16777216) % 256>>

\* u64::from_le_bytes, into four 16-bit limbs
from_le_bytes(b) == [k \in 1..4 |-> b[2 * k - 1] + 256 * b[2 * k]]

\* (mutation) the indexes are written after the amounts
PerenaSwapInstructionDataTrailing(in, out, d) ==
    LET b0 == MaybeUninit(26)
        b1 == copy_nonoverlapping(PERENA_SWAP_DISCRIMINATOR, b0, 0, 8)
        b2 == copy_nonoverlapping(to_le_bytes(in), b1, 8, 8)
        b3 == copy_nonoverlapping(to_le_bytes(out), b2, 16, 8)
        b4 == ptr_write(b3, 24, d.in_index)
        b5 == ptr_write(b4, 25, d.out_index)
    IN from_raw_parts(b5, 26)

PerenaSwapInstructionData(in, out, d) ==
    LET b0 == MaybeUninit(26)
        b1 == copy_nonoverlapping(PERENA_SWAP_DISCRIMINATOR, b0, 0, 8)
        b2 == ptr_write(b1, 8, d.in_index)
        b3 == ptr_write(b2, 9, d.out_index)
        b4 == copy_nonoverlapping(to_le_bytes(in), b3, 10, 8)
        b5 == copy_nonoverlapping(to_le_bytes(out), b4, 18, 8)
    IN from_raw_parts(b5, 26)

SolFiSwapInstructionData(in, out, d) ==
    LET b0 == MaybeUninit(18)
        b1 == ptr_write(b0, 0, SOLFI_SWAP_DISCRIMINATOR)
        b2 == copy_nonoverlapping(to_le_bytes(in), b1, 1, 8)
        b3 == copy_nonoverlapping(to_le_bytes(out), b2, 9, 8)
        b4 == ptr_write(b3, 17, as_u8(d.is_quote_to_base))
    IN from_raw_parts(b4, 18)

SolFiV2SwapInstructionData(in, out, d) ==
    LET b0 == MaybeUninit(18)
        b1 == ptr_write(b0, 0, SOLFI_V2_SWAP_DISCRIMINATOR)
        b2 == copy_nonoverlapping(to_le_bytes(in), b1, 1, 8)
        b3 == copy_nonoverlapping(to_le_bytes(out), b2, 9, 8)
        b4 == ptr_write(b3, 17, as_u8(d.is_quote_to_base))
    IN from_raw_parts(b4, 18)

\* (mutation) the two flags are written in the other order
ManifestSwapInstructionDataSwapped(in, out, d) ==
    LET b0 == MaybeUninit(19)
        b1 == ptr_write(b0, 0, MANIFEST_SWAP_DISCRIMINATOR)
        b2 == copy_nonoverlapping(to_le_bytes(in), b1, 1, 8)
        b3 == copy_nonoverlapping(to_le_bytes(out), b2, 9, 8)
        b4 == ptr_write(b3, 17, as_u8(d.is_exact_in))
        b5 == ptr_write(b4, 18, as_u8(d.is_base_in))
    IN from_raw_parts(b5, 19)

ManifestSwapInstructionData(in, out, d) ==
    LET b0 == MaybeUninit(19)
        b1 == ptr_write(b0, 0, MANIFEST_SWAP_DISCRIMINATOR)
        b2 == copy_nonoverlapping(to_le_bytes(in), b1, 1, 8)
        b3 == copy_nonoverlapping(to_le_bytes(out), b2, 9, 8)
        b4 == ptr_write(b3, 17, as_u8(d.is_base_in))
        b5 == ptr_write(b4, 18, as_u8(d.is_exact_in))
    IN from_raw_parts(b5, 19)

\* `match data.side { Side::Bid => 0u8, Side::Ask => 1u8 }`
AldrinSideByte(side) == IF side = "Bid" THEN 0 ELSE 1

AldrinSwapInstructionData(in, out, d) ==
    LET b0 == MaybeUninit(25)
        b1 == copy_nonoverlapping(ALDRIN_SWAP_DISCRIMINATOR, b0, 0, 8)
        b2 == copy_nonoverlapping(to_le_bytes(in), b1, 8, 8)
        b3 == copy_nonoverlapping(to_le_bytes(out), b2, 16, 8)
        b4 == ptr_write(b3, 24, AldrinSideByte(d.side))
    IN from_raw_parts(b4, 25)

AldrinV2SideByte(side) == IF side = "Bid" THEN 0 ELSE 1

AldrinV2SwapInstructionData(in, out, d) ==
    LET b0 == MaybeUninit(25)
        b1 == copy_nonoverlapping(ALDRIN_V2_SWAP_DISCRIMINATOR, b0, 0, 8)
        b2 == copy_nonoverlapping(to_le_bytes(in), b1, 8, 8)
        b3 == copy_nonoverlapping(to_le_bytes(out), b2, 16, 8)
        b4 == ptr_write(b3, 24, AldrinV2SideByte(d.side))
    IN from_raw_parts(b4, 25)

\* (mutation) the two arms of the match are exchanged
FutarchySwapTypeByteExchanged(swap_type) == IF swap_type = "Buy" THEN 1 ELSE 0

\* `match data.swap_type { SwapType::Buy => 0u8, SwapType::Sell => 1u8 }`
FutarchySwapTypeByte(swap_type) == IF swap_type = "Buy" THEN 0 ELSE 1

FutarchySwapInstructionData(in, out, d) ==
    LET b0 == MaybeUninit(25)
        b1 == copy_nonoverlapping(FUTARCHY_SWAP_DISCRIMINATOR, b0, 0, 8)
        b2 == copy_nonoverlapping(to_le_bytes(in), b1, 8, 8)
        b3 == ptr_write(b2, 16, FutarchySwapTypeByte(d.swap_type))
        b4 == copy_nonoverlapping(to_le_bytes(out), b3, 17, 8)
    IN from_raw_parts(b4, 25)

GammaSwapInstructionData(in, out) ==
    LET b0 == MaybeUninit(24)
        b1 == copy_nonoverlapping(GAMMA_SWAP_DISCRIMINATOR, b0, 0, 8)
        b2 == copy_nonoverlapping(to_le_bytes(in), b1, 8, 8)
        b3 == copy_nonoverlapping(to_le_bytes(out), b2, 16, 8)
    IN from_raw_parts(b3, 24)

\* `match data.direction { Buy => &BUY_DISCRIMINATOR, Sell => &SELL_DISCRIMINATOR }`
HeavenDiscriminator(direction) == IF direction = "Buy" THEN BUY_DISCRIMINATOR ELSE SELL_DISCRIMINATOR

\* Heaven, the branch `event_len == 0`
HeavenEmptyEventInstructionData(in, out, d) ==
    LET b0 == MaybeUninit(28)
        b1 == copy_nonoverlapping(HeavenDiscriminator(d.direction), b0, 0, 8)
        b2 == copy_nonoverlapping(to_le_bytes(in), b1, 8, 8)
        b3 == copy_nonoverlapping(to_le_bytes(out), b2, 16, 8)
        b4 == copy_nonoverlapping(u32_to_le_bytes(0), b3, 24, 4)
    IN from_raw_parts(b4, 28)

\* (mutation) the whole buffer is passed to the invocation
HeavenEventInstructionDataFullBuffer(in, out, d) ==
    LET event_len == Len(d.event)
        b0 == MaybeUninit(28 + MAX_EVENT_LEN)
        b1 == copy_nonoverlapping(HeavenDiscriminator(d.direction), b0, 0, 8)
        b2 == copy_nonoverlapping(to_le_bytes(in), b1, 8, 8)
        b3 == copy_nonoverlapping(to_le_bytes(out), b2, 16, 8)
        b4 == copy_nonoverlapping(u32_to_le_bytes(event_len), b3, 24, 4)
        b5 == copy_nonoverlapping(d.event, b4, 28, event_len)
    IN from_raw_parts(b5, 28 + MAX_EVENT_LEN)

\* Heaven, the branch `0 < event_len <= MAX_EVENT_LEN`
HeavenEventInstructionData(in, out, d) ==
    LET event_len == Len(d.event)
        instruction_data_len == 8 + 8 + 8 + 4 + event_len
        b0 == MaybeUninit(28 + MAX_EVENT_LEN)
        b1 == copy_nonoverlapping(HeavenDiscriminator(d.direction), b0, 0, 8)
        b2 == copy_nonoverlapping(to_le_bytes(in), b1, 8, 8)
        b3 == copy_nonoverlapping(to_le_bytes(out), b2, 16, 8)
        b4 == copy_nonoverlapping(u32_to_le_bytes(event_len), b3, 24, 4)
        b5 == copy_nonoverlapping(d.event, b4, 28, event_len)
    IN from_raw_parts(b5, instruction_data_len)

\* a swap adapter ends with `invoke_signed(..)`: what the callee returns is returned
ReturnOutcome(outcome) == [pc |-> "done", result |-> outcome]

\* (mutation) swap / deposit forward seeds of their own
SomeSigners == <<"seedA", "seedB">>

\* the `&[]` that swap and deposit pass as signer seeds
EmptySigners == <<>>

\* where each adapter's swap_signed / deposit_signed starts
AdapterPc(p) ==
    CASE p = "Perena" -> "perena_swap"
      [] p = "SolFi" -> "solfi_swap"
      [] p = "SolFiV2" -> "solfi_v2_swap"
      [] p = "Manifest" -> "manifest_swap"
      [] p = "Heaven" -> "heaven_swap"
      [] p = "Aldrin" -> "aldrin_swap"
      [] p = "AldrinV2" -> "aldrin_v2_swap"
      [] p = "Futarchy" -> "futarchy_swap"
      [] p = "Gamma" -> "gamma_swap"
      [] p = "Kamino" -> "kamino_refresh_reserve"
      [] p = "Jupiter" -> "jupiter_deposit"

\* (mutation) the Gamma arm looks at the context only: `(SwapContext::Gamma(accounts), _)`
SwapArmMatchesGammaLoose(c, d, en) ==
    /\ c.tag \in en
    /\ c.tag = d.tag \/ c.tag = "Gamma"

\* the arms of `match (ctx, data)`: a context and a payload of the same protocol
SwapArmMatches(c, d, en) ==
    /\ c.tag \in en
    /\ c.tag = d.tag

----------------------------------------------------------------------------
(* Propagation of a CPI result *)

\* (mutation) the result of invoke_signed is dropped (`let _ = invoke_signed(..);`)
PropagateIgnored(outcome, next) == [pc |-> next, result |-> Pending]

\* (mutation) the failure is replaced by a local error (`.map_err(|_| InvalidAccountData)?`)
PropagateMapped(outcome, next) ==
    IF outcome = Ok THEN [pc |-> next, result |-> Pending]
    ELSE [pc |-> "done", result |-> Err(InvalidAccountData)]

\* `invoke_signed(..)?` : on success go on to the next statement, on failure return it
Propagate(outcome, next) ==
    IF outcome = Ok THEN [pc |-> next, result |-> Pending]
    ELSE [pc |-> "done", result |-> outcome]

\* the statement after the last `invoke_signed(..)?` is `Ok(())`
PropagateLast(outcome) ==
    IF outcome = Ok THEN [pc |-> "done", result |-> Ok]
    ELSE [pc |-> "done", result |-> outcome]

----------------------------------------------------------------------------
(* Inputs *)

Owners == {KAMINO_LEND_PROGRAM_ID, "TokenkegQfeZyiNwAJbNbGKPFXCWuBvf9Ss623VQ5DA"}

\* three ways of filling a slice: distinct addresses or one shared address, the
\* owner of the accounts that carry no owner pattern, and the two flags
Schemes == {
    [alias |-> FALSE, owner |-> "TokenkegQfeZyiNwAJbNbGKPFXCWuBvf9Ss623VQ5DA", is_signer |-> FALSE, is_writable |-> FALSE],
    [alias |-> FALSE, owner |-> KAMINO_LEND_PROGRAM_ID, is_signer |-> TRUE, is_writable |-> FALSE],
    [alias |-> TRUE, owner |-> "TokenkegQfeZyiNwAJbNbGKPFXCWuBvf9Ss623VQ5DA", is_signer |-> TRUE, is_writable |-> TRUE] }

Addr(j) == "acct" \o ToString(j)

Run(q) == [j \in 1..q |-> KAMINO_LEND_PROGRAM_ID]

SeqsUpTo(S, n) == UNION {[1..m -> S] : m \in 0..n}

\* owner patterns of the accounts after the fixed prefix
TailOwners == {Run(q) \o s : q \in 0..MaxRun, s \in SeqsUpTo(Owners, MaxSuffix)}

\* a slice of n accounts followed by accounts owned as `tail` says; account 0 has address a0
MkAccounts(a0, n, tail, sch) ==
    [j \in 1..(n + Len(tail)) |->
        [idx |-> j,
         address |-> IF j = 1 THEN a0 ELSE IF sch.alias THEN Addr(0) ELSE Addr(j),
         owner |-> IF j <= n THEN sch.owner ELSE tail[j - n],
         is_signer |-> sch.is_signer,
         is_writable |-> sch.is_writable]]

Slices(a0, sch) ==
    {MkAccounts(a0, n, <<>>, sch) : n \in 0..MaxPrefix}
    \cup {MkAccounts(a0, Len(KaminoFields), t, sch) : t \in TailOwners}

UnknownProgram == "Unknown1111111111111111111111111111111111111"

Amounts == {<<1, 0, 0, 0>>, <<57600, 1525, 0, 65535>>}
SeedChoices == {<<>>, <<"seedA", "seedB">>}

\* the protocol-specific bytes a caller appends after the two amounts
ExtraBytes == {0, 1, 2}
Event(n) == [j \in 1..n |-> j % 256]
ExtraChoices ==
    SeqsUpTo(ExtraBytes, MaxExtra)
    \cup {<<1, 1, 9>>, <<1>> \o Event(MAX_EVENT_LEN - 1), <<0>> \o Event(MAX_EVENT_LEN),
          <<1>> \o Event(MAX_EVENT_LEN + 1)}

\* pairs <<in_amount, minimum_out_amount>> (u64 as four 16-bit limbs)
SwapAmountPairs == {
    << <<57600, 1525, 0, 0>>, <<1, 0, 0, 0>> >>,
    << <<65535, 65535, 65535, 65535>>, <<0, 0, 0, 0>> >>,
    << <<513, 1027, 1541, 2055>>, <<57600, 1525, 0, 65535>> >> }

\* typed payloads a caller can hold
SwapDataValues == {SwapDataTryFrom(p, e).data : p \in SwapProtocols, e \in ExtraChoices} \ {NoData}

PlainScheme == CHOOSE s \in Schemes : ~s.alias /\ ~s.is_signer

\* the instruction bytes handed to the entry glue: two amounts, then the extra bytes
SwapInstructionBytes(in, out, extra) == to_le_bytes(in) \o to_le_bytes(out) \o extra

\* slices whose account 0 names a swap program, one account short or complete
SwapSlices ==
    UNION {{MkAccounts(ProgramId(p), n, <<>>, PlainScheme) :
                n \in {Len(FieldNames(p)) - 1, Len(FieldNames(p))}} : p \in SwapProtocols}
    \cup {MkAccounts(UnknownProgram, MaxPrefix, <<>>, PlainScheme), <<>>}

\* operation payloads handed to process_instruction behind the selector byte: a deposit
\* amount, two swap amounts with the protocol-specific bytes, and each cut one byte short
PayloadChoices ==
    LET swaps == {SwapInstructionBytes(ab[1], ab[2], e) :
                     ab \in SwapAmountPairs,
                     e \in SeqsUpTo(ExtraBytes, 1) \cup {<<1, 1>>, <<0, 2>>}}
        deposits == {to_le_bytes(a) : a \in Amounts}
    IN {<<>>} \cup swaps \cup deposits
       \cup {SubSeq(b, 1, 15) : b \in swaps} \cup {SubSeq(b, 1, 7) : b \in deposits}

----------------------------------------------------------------------------
(* The call *)

InitParse ==
    /\ op = "parse"
    /\ entry = "try_from"
    /\ instruction_data = <<>>
    /\ extra_data = <<>>
    /\ in_amount = <<0, 0, 0, 0>>
    /\ minimum_out_amount = <<0, 0, 0, 0>>
    /\ swap_data = NoData
    /\ proto \in Protocols
    /\ enabled = Protocols
    /\ \E a0 \in {ProgramId(proto), UnknownProgram}, sch \in Schemes : accounts \in Slices(a0, sch)
    /\ amount = <<0, 0, 0, 0>>
    /\ signer_seeds = <<>>

InitDeposit ==
    /\ op = "deposit"
    /\ entry \in {"deposit", "deposit_signed"}
    /\ instruction_data = <<>>
    /\ extra_data = <<>>
    /\ in_amount = <<0, 0, 0, 0>>
    /\ minimum_out_amount = <<0, 0, 0, 0>>
    /\ swap_data = NoData
    /\ proto = "None"
    /\ enabled \in SUBSET DepositProtocols
    /\ \E a0 \in {KAMINO_LEND_PROGRAM_ID, JUPITER_EARN_PROGRAM_ID, UnknownProgram}, sch \in Schemes :
          accounts \in Slices(a0, sch)
    /\ amount \in Amounts
    /\ signer_seeds \in IF entry = "deposit" THEN {<<>>} ELSE SeedChoices

InitSwap ==
    /\ op = "swap"
    /\ entry = "try_from_swap_context"
    /\ instruction_data = <<>>
    /\ extra_data = <<>>
    /\ in_amount = <<0, 0, 0, 0>>
    /\ minimum_out_amount = <<0, 0, 0, 0>>
    /\ swap_data = NoData
    /\ proto = "None"
    /\ enabled \in SUBSET SwapProtocols
    /\ \E a0 \in {ProgramId(p) : p \in Protocols} \cup {UnknownProgram} :
          accounts \in {MkAccounts(a0, n, <<>>, sch) : n \in 0..MaxPrefix,
                            sch \in {s \in Schemes : ~s.alias /\ ~s.is_signer}}
    /\ amount = <<0, 0, 0, 0>>
    /\ signer_seeds = <<>>

\* the entry glue: swap::process(accounts, swap_data)
InitProcess ==
    /\ op = "process"
    /\ entry = "process"
    /\ proto = "None"
    /\ enabled = SwapProtocols
    /\ accounts \in SwapSlices
    /\ \E ab \in SwapAmountPairs, e \in ExtraChoices :
          instruction_data \in {SwapInstructionBytes(ab[1], ab[2], e),
                                SubSeq(SwapInstructionBytes(ab[1], ab[2], e), 1, 15)}
    /\ extra_data = <<>>
    /\ in_amount = <<0, 0, 0, 0>>
    /\ minimum_out_amount = <<0, 0, 0, 0>>
    /\ swap_data = NoData
    /\ amount = <<0, 0, 0, 0>>
    /\ signer_seeds = <<>>

\* the free functions swap(accounts, in, min_out, swap_data) and swap_signed(.., signer_seeds)
InitFree ==
    /\ op = "free"
    /\ entry \in {"swap", "swap_signed"}
    /\ proto = "None"
    /\ enabled = SwapProtocols
    /\ accounts \in SwapSlices
    /\ instruction_data = <<>>
    /\ extra_data = <<>>
    /\ \E ab \in SwapAmountPairs : in_amount = ab[1] /\ minimum_out_amount = ab[2]
    /\ swap_data \in SwapDataValues
    /\ amount = <<0, 0, 0, 0>>
    /\ signer_seeds \in IF entry = "swap" THEN {<<>>} ELSE SeedChoices

\* a caller that builds SwapContext::X(XAccounts::try_from(accounts)?) itself, parses
\* the payload with try_from_swap_data and calls SwapContext::swap or swap_signed
InitContext ==
    /\ op = "context"
    /\ entry \in {"swap", "swap_signed"}
    /\ proto \in SwapProtocols
    /\ enabled = SwapProtocols
    /\ \E a0 \in {ProgramId(proto), GAMMA_PROGRAM_ID, PERENA_PROGRAM_ID} :
          accounts = MkAccounts(a0, Len(FieldNames(proto)), <<>>, PlainScheme)
    /\ instruction_data = <<>>
    /\ extra_data \in ExtraChoices
    /\ \E ab \in SwapAmountPairs : in_amount = ab[1] /\ minimum_out_amount = ab[2]
    /\ swap_data = NoData
    /\ amount = <<0, 0, 0, 0>>
    /\ signer_seeds \in IF entry = "swap" THEN {<<>>} ELSE SeedChoices

\* a caller that uses one adapter directly: X::swap, X::swap_signed, X::deposit, X::deposit_signed
InitAdapter ==
    /\ op = "adapter"
    /\ proto \in Protocols
    /\ entry \in IF proto \in SwapProtocols THEN {"swap", "swap_signed"} ELSE {"deposit", "deposit_signed"}
    /\ enabled = Protocols
    /\ accounts \in {MkAccounts(ProgramId(proto), Len(FieldNames(proto)), t, PlainScheme) : t \in {<<>>, Run(1)}}
    /\ instruction_data = <<>>
    /\ extra_data = <<>>
    /\ IF proto \in SwapProtocols
       THEN /\ \E ab \in SwapAmountPairs : in_amount = ab[1] /\ minimum_out_amount = ab[2]
            /\ swap_data \in {d \in SwapDataValues : d.tag = proto}
            /\ amount = <<0, 0, 0, 0>>
       ELSE /\ in_amount = <<0, 0, 0, 0>> /\ minimum_out_amount = <<0, 0, 0, 0>>
            /\ swap_data = NoData
            /\ amount \in Amounts
    /\ signer_seeds \in IF entry \in {"swap", "deposit"} THEN {<<>>} ELSE SeedChoices

\* the program entrypoint: process_instruction(program_id, accounts, instruction_data)
InitEntrypoint ==
    /\ op = "entrypoint"
    /\ entry = "process_instruction"
    /\ proto = "None"
    /\ enabled = Protocols
    /\ accounts \in SwapSlices
                    \cup {MkAccounts(KAMINO_LEND_PROGRAM_ID, n, <<>>, PlainScheme) : n \in {17, 18, 19}}
                    \cup {MkAccounts(KAMINO_LEND_PROGRAM_ID, Len(KaminoFields), Run(2), PlainScheme)}
    /\ instruction_data \in {<<>>} \cup {<<b>> \o p : b \in ExtraBytes, p \in PayloadChoices}
    /\ extra_data = <<>>
    /\ in_amount = <<0, 0, 0, 0>>
    /\ minimum_out_amount = <<0, 0, 0, 0>>
    /\ swap_data = NoData
    /\ amount = <<0, 0, 0, 0>>
    /\ signer_seeds = <<>>

Init ==
    /\ (InitParse \/ InitDeposit \/ InitSwap \/ InitProcess \/ InitFree \/ InitContext \/ InitAdapter
          \/ InitEntrypoint)
    /\ pc = "start"
    /\ ctx = NoCtx
    /\ i = 0
    /\ cpis = <<>>
    /\ cpi_results = <<>>
    /\ result = Pending

\* (mutation) process_instruction hands on its bytes with the selector byte
ProcessDataWithSelector == instruction_data

\* the bytes the entry glue works on: process_instruction hands on what follows the
\* selector byte (`split_first`), swap::process is given its bytes directly
ProcessData == IF op = "entrypoint" THEN SliceFrom(instruction_data, 1) ELSE instruction_data

\* process_instruction: split off byte 0 and route on it
ProcessInstruction ==
    /\ op = "entrypoint" /\ pc = "start"
    /\ IF instruction_data = <<>>
       THEN pc' = "done" /\ result' = Err(InvalidInstructionData)
       ELSE LET discriminator == instruction_data[1]
            IN CASE discriminator = 0 -> pc' = "deposit_process" /\ result' = Pending
                 [] discriminator = 1 -> pc' = "swap_process" /\ result' = Pending
                 [] OTHER -> pc' = "done" /\ result' = Err(InvalidInstructionData)
    /\ UNCHANGED <<op, entry, proto, enabled, accounts, instruction_data, extra_data, in_amount, minimum_out_amount, swap_data, amount, signer_seeds, ctx, i, cpis, cpi_results>>

\* a direct call of one protocol's account parser; on the "context" and "adapter"
\* paths the caller goes on with the context it returned
ParseAccounts ==
    /\ op \in {"parse", "context", "adapter"} /\ pc = "start"
    /\ LET r == AccountsTryFrom(proto, accounts)
       IN /\ ctx' = r.ctx
          /\ result' = IF op # "parse" /\ r.res = Ok THEN Pending ELSE r.res
          /\ pc' = IF op = "parse" \/ r.res # Ok THEN "done"
                   ELSE IF op = "context" THEN "swap_data"
                   ELSE IF entry \in {"swap", "deposit"} THEN "adapter_unsigned"
                   ELSE AdapterPc(proto)
    /\ UNCHANGED <<op, entry, proto, enabled, accounts, instruction_data, extra_data, in_amount, minimum_out_amount, swap_data, amount, signer_seeds, i, cpis, cpi_results>>

\* try_from_swap_context(accounts)?
DetectSwap ==
    /\ \/ op = "swap" /\ pc = "start"
       \/ op = "free" /\ entry = "swap_signed" /\ pc = "start"
       \/ op = "free" /\ pc = "free_swap_signed"
       \/ op \in {"process", "entrypoint"} /\ pc = "detect"
    /\ LET r == try_from_swap_context(accounts, enabled)
       IN /\ ctx' = r.ctx
          /\ result' = IF r.res = Ok THEN Pending ELSE r.res
          /\ pc' = IF r.res # Ok THEN "done"
                   ELSE IF op = "swap" THEN "swap_detected"
                   ELSE IF op = "free" THEN "swap_signed"
                   ELSE "swap_data"
    /\ UNCHANGED <<op, entry, proto, enabled, accounts, instruction_data, extra_data, in_amount, minimum_out_amount, swap_data, amount, signer_seeds, i, cpis, cpi_results>>

\* try_from_deposit_context(accounts)?
DetectDeposit ==
    /\ \/ op = "deposit" /\ pc = "start"
       \/ op = "entrypoint" /\ pc = "deposit_process"
    /\ LET r == try_from_deposit_context(accounts, enabled)
       IN /\ ctx' = r.ctx
          /\ result' = IF r.res = Ok THEN Pending ELSE r.res
          /\ pc' = IF r.res # Ok THEN "done"
                   ELSE IF op = "entrypoint" THEN "deposit_data"
                   ELSE IF entry = "deposit" THEN "deposit"
                   ELSE "deposit_signed"
    /\ UNCHANGED <<op, entry, proto, enabled, accounts, instruction_data, extra_data, in_amount, minimum_out_amount, swap_data, amount, signer_seeds, i, cpis, cpi_results>>

\* DepositContext::deposit_signed: route on the active variant
DispatchDeposit ==
    /\ pc = "deposit_signed"
    /\ pc' = CASE ctx.tag = "Kamino" -> "kamino_refresh_reserve"
               [] ctx.tag = "Jupiter" -> "jupiter_deposit"
               [] OTHER -> "done"
    /\ result' = IF ctx.tag \in DepositProtocols THEN Pending ELSE Err(InvalidAccountData)
    /\ UNCHANGED <<op, entry, proto, enabled, accounts, instruction_data, extra_data, in_amount, minimum_out_amount, swap_data, amount, signer_seeds, ctx, i, cpis, cpi_results>>

\* one invoke_signed: the call is issued and the callee returns `outcome`
Invoke(inv, outcome, after) ==
    /\ cpis' = Append(cpis, inv)
    /\ cpi_results' = Append(cpi_results, outcome)
    /\ pc' = after.pc
    /\ result' = after.result

KaminoRefreshReserve ==
    /\ pc = "kamino_refresh_reserve"
    /\ \E outcome \in CpiOutcomes :
          Invoke(Invocation(KAMINO_LEND_PROGRAM_ID, RefreshReserveAccounts(ctx),
                            RefreshReserveAccountInfos(ctx), REFRESH_RESERVE_DISCRIMINATOR,
                            signer_seeds),
                 outcome, Propagate(outcome, "kamino_refresh_tail"))
    /\ i' = 0
    /\ UNCHANGED <<op, entry, proto, enabled, accounts, instruction_data, extra_data, in_amount, minimum_out_amount, swap_data, amount, signer_seeds, ctx>>

KaminoRefreshTail ==
    /\ pc = "kamino_refresh_tail"
    /\ i < Len(ctx.reserve_accounts)
    /\ \E outcome \in CpiOutcomes :
          Invoke(Invocation(KAMINO_LEND_PROGRAM_ID, TailRefreshAccounts(ctx, ctx.reserve_accounts[i + 1]),
                            TailRefreshAccountInfos(ctx, ctx.reserve_accounts[i + 1]),
                            REFRESH_RESERVE_DISCRIMINATOR, signer_seeds),
                 outcome, Propagate(outcome, "kamino_refresh_tail"))
    /\ i' = i + 1
    /\ UNCHANGED <<op, entry, proto, enabled, accounts, instruction_data, extra_data, in_amount, minimum_out_amount, swap_data, amount, signer_seeds, ctx>>

KaminoRefreshObligation ==
    /\ pc = "kamino_refresh_tail"
    /\ i >= Len(ctx.reserve_accounts)
    /\ \E outcome \in CpiOutcomes :
          Invoke(Invocation(KAMINO_LEND_PROGRAM_ID, ObligationAccountsSlice(ctx),
                            ObligationAccountInfos(ctx), REFRESH_OBLIGATION_DISCRIMINATOR,
                            signer_seeds),
                 outcome, Propagate(outcome, "kamino_deposit"))
    /\ UNCHANGED <<op, entry, proto, enabled, accounts, instruction_data, extra_data, in_amount, minimum_out_amount, swap_data, amount, signer_seeds, ctx, i>>

KaminoDeposit ==
    /\ pc = "kamino_deposit"
    /\ \E outcome \in CpiOutcomes :
          Invoke(Invocation(KAMINO_LEND_PROGRAM_ID, KaminoDepositAccountsMeta(ctx),
                            KaminoDepositAccountInfos(ctx), KaminoDepositData(amount),
                            signer_seeds),
                 outcome, PropagateLast(outcome))
    /\ UNCHANGED <<op, entry, proto, enabled, accounts, instruction_data, extra_data, in_amount, minimum_out_amount, swap_data, amount, signer_seeds, ctx, i>>

JupiterDeposit ==
    /\ pc = "jupiter_deposit"
    /\ \E outcome \in CpiOutcomes :
          Invoke(Invocation(JUPITER_EARN_PROGRAM_ID, JupiterDepositAccountsMeta(ctx),
                            JupiterDepositAccountInfos(ctx), JupiterDepositData(amount),
                            signer_seeds),
                 outcome, PropagateLast(outcome))
    /\ UNCHANGED <<op, entry, proto, enabled, accounts, instruction_data, extra_data, in_amount, minimum_out_amount, swap_data, amount, signer_seeds, ctx, i>>

\* (mutation) the accounts are looked at before the amount header
ParseSwapInstructionDataAfterAccounts ==
    /\ \/ op = "process" /\ pc = "start"
       \/ op = "entrypoint" /\ pc = "swap_process"
    /\ IF try_from_swap_context(accounts, enabled).res # Ok
       THEN /\ pc' = "done"
            /\ result' = try_from_swap_context(accounts, enabled).res
            /\ UNCHANGED <<in_amount, minimum_out_amount, extra_data>>
       ELSE IF Len(ProcessData) < 16
       THEN /\ pc' = "done"
            /\ result' = Err(InvalidInstructionData)
            /\ UNCHANGED <<in_amount, minimum_out_amount, extra_data>>
       ELSE /\ in_amount' = from_le_bytes(SubSeq(ProcessData, 1, 8))
            /\ minimum_out_amount' = from_le_bytes(SubSeq(ProcessData, 9, 16))
            /\ extra_data' = SliceFrom(ProcessData, 16)
            /\ pc' = "detect"
            /\ result' = Pending
    /\ UNCHANGED <<op, entry, proto, enabled, accounts, instruction_data, swap_data, amount, signer_seeds, ctx, i, cpis, cpi_results>>

\* SwapInstructionData::try_from: the 16-byte amount header, then the extra bytes
ParseSwapInstructionData ==
    /\ \/ op = "process" /\ pc = "start"
       \/ op = "entrypoint" /\ pc = "swap_process"
    /\ IF Len(ProcessData) < 16
       THEN /\ pc' = "done"
            /\ result' = Err(InvalidInstructionData)
            /\ UNCHANGED <<in_amount, minimum_out_amount, extra_data>>
       ELSE /\ in_amount' = from_le_bytes(SubSeq(ProcessData, 1, 8))
            /\ minimum_out_amount' = from_le_bytes(SubSeq(ProcessData, 9, 16))
            /\ extra_data' = SliceFrom(ProcessData, 16)
            /\ pc' = "detect"
            /\ result' = Pending
    /\ UNCHANGED <<op, entry, proto, enabled, accounts, instruction_data, swap_data, amount, signer_seeds, ctx, i, cpis, cpi_results>>

\* (mutation) a short amount is reported but the call goes on to the deposit
ParseDepositInstructionDataNoReturn ==
    /\ pc = "deposit_data"
    /\ amount' = IF Len(ProcessData) < 8 THEN <<0, 0, 0, 0>> ELSE from_le_bytes(SubSeq(ProcessData, 1, 8))
    /\ pc' = "deposit"
    /\ result' = IF Len(ProcessData) < 8 THEN Err(InvalidInstructionData) ELSE Pending
    /\ UNCHANGED <<op, entry, proto, enabled, accounts, instruction_data, extra_data, in_amount, minimum_out_amount, swap_data, signer_seeds, ctx, i, cpis, cpi_results>>

\* DepositInstructionData::try_from, evaluated after try_from_deposit_context(accounts)?
ParseDepositInstructionData ==
    /\ pc = "deposit_data"
    /\ IF Len(ProcessData) < 8
       THEN /\ pc' = "done"
            /\ result' = Err(InvalidInstructionData)
            /\ UNCHANGED amount
       ELSE /\ amount' = from_le_bytes(SubSeq(ProcessData, 1, 8))
            /\ pc' = "deposit"
            /\ result' = Pending
    /\ UNCHANGED <<op, entry, proto, enabled, accounts, instruction_data, extra_data, in_amount, minimum_out_amount, swap_data, signer_seeds, ctx, i, cpis, cpi_results>>

\* the free function swap: swap_signed(accounts, in_amount, minimum_out_amount, swap_data, &[])
FreeSwap ==
    /\ op = "free" /\ entry = "swap" /\ pc = "start"
    /\ signer_seeds' = EmptySigners
    /\ pc' = "free_swap_signed"
    /\ UNCHANGED <<op, entry, proto, enabled, accounts, instruction_data, extra_data, in_amount, minimum_out_amount, swap_data, amount, ctx, i, cpis, cpi_results, result>>

\* ctx.try_from_swap_data(extra_data)?
ParseSwapData ==
    /\ pc = "swap_data"
    /\ LET r == try_from_swap_data(ctx, extra_data, enabled)
       IN /\ swap_data' = r.data
          /\ result' = IF r.res = Ok THEN Pending ELSE r.res
          /\ pc' = IF r.res # Ok THEN "done"
                   ELSE IF entry = "swap_signed" THEN "swap_signed" ELSE "swap"
    /\ UNCHANGED <<op, entry, proto, enabled, accounts, instruction_data, extra_data, in_amount, minimum_out_amount, amount, signer_seeds, ctx, i, cpis, cpi_results>>

\* SwapContext::swap: Self::swap_signed(ctx, in_amount, minimum_out_amount, swap_data, &[])
ContextSwap ==
    /\ pc = "swap"
    /\ signer_seeds' = EmptySigners
    /\ pc' = "swap_signed"
    /\ UNCHANGED <<op, entry, proto, enabled, accounts, instruction_data, extra_data, in_amount, minimum_out_amount, swap_data, amount, ctx, i, cpis, cpi_results, result>>

\* DepositContext::deposit: Self::deposit_signed(ctx, amount, &[])
ContextDeposit ==
    /\ pc = "deposit"
    /\ signer_seeds' = EmptySigners
    /\ pc' = "deposit_signed"
    /\ UNCHANGED <<op, entry, proto, enabled, accounts, instruction_data, extra_data, in_amount, minimum_out_amount, swap_data, amount, ctx, i, cpis, cpi_results, result>>

\* an adapter's own swap / deposit: Self::swap_signed(.., &[]) / Self::deposit_signed(.., &[])
AdapterUnsigned ==
    /\ pc = "adapter_unsigned"
    /\ signer_seeds' = EmptySigners
    /\ pc' = AdapterPc(ctx.tag)
    /\ UNCHANGED <<op, entry, proto, enabled, accounts, instruction_data, extra_data, in_amount, minimum_out_amount, swap_data, amount, ctx, i, cpis, cpi_results, result>>

\* SwapContext::swap_signed: `match (ctx, swap_data)`, route to the adapter of the matching pair
DispatchSwap ==
    /\ pc = "swap_signed"
    /\ pc' = IF SwapArmMatches(ctx, swap_data, enabled) THEN AdapterPc(ctx.tag) ELSE "done"
    /\ result' = IF SwapArmMatches(ctx, swap_data, enabled) THEN Pending ELSE Err(InvalidAccountData)
    /\ UNCHANGED <<op, entry, proto, enabled, accounts, instruction_data, extra_data, in_amount, minimum_out_amount, swap_data, amount, signer_seeds, ctx, i, cpis, cpi_results>>

\* the single CPI of a swap adapter: `invoke_signed(&instruction, &account_infos, signer_seeds)`
SwapInvoke(program_id, metas, infos, bytes) ==
    /\ \E outcome \in CpiOutcomes :
          Invoke(Invocation(program_id, metas, infos, bytes, signer_seeds), outcome, ReturnOutcome(outcome))
    /\ UNCHANGED <<op, entry, proto, enabled, accounts, instruction_data, extra_data, in_amount, minimum_out_amount, swap_data, amount, signer_seeds, ctx, i>>

PerenaSwap ==
    /\ pc = "perena_swap"
    /\ LET instruction_accounts ==
               << writable(ctx.fields.pool.address),
                  writable(ctx.fields.in_mint.address),
                  writable(ctx.fields.out_mint.address),
                  writable(ctx.fields.in_trader.address),
                  writable(ctx.fields.out_trader.address),
                  writable(ctx.fields.in_vault.address),
                  writable(ctx.fields.out_vault.address),
                  readonly(ctx.fields.numeraire_config.address),
                  writable_signer(ctx.fields.payer.address),
                  readonly(ctx.fields.token_program.address),
                  readonly(ctx.fields.token_2022_program.address) >>
           account_infos ==
               << ctx.fields.pool,
                  ctx.fields.in_mint,
                  ctx.fields.out_mint,
                  ctx.fields.in_trader,
                  ctx.fields.out_trader,
                  ctx.fields.in_vault,
                  ctx.fields.out_vault,
                  ctx.fields.numeraire_config,
                  ctx.fields.payer,
                  ctx.fields.token_program,
                  ctx.fields.token_2022_program >>
       IN SwapInvoke(PERENA_PROGRAM_ID, instruction_accounts, account_infos,
                     PerenaSwapInstructionData(in_amount, minimum_out_amount, swap_data))

SolFiSwap ==
    /\ pc = "solfi_swap"
    /\ LET instruction_accounts ==
               << writable_signer(ctx.fields.token_transfer_authority.address),
                  writable(ctx.fields.market_account.address),
                  writable(ctx.fields.base_vault.address),
                  writable(ctx.fields.quote_vault.address),
                  writable(ctx.fields.user_base_ata.address),
                  writable(ctx.fields.user_quote_ata.address),
                  readonly(ctx.fields.token_program.address),
                  readonly(ctx.fields.instructions_sysvar.address) >>
           account_infos ==
               << ctx.fields.token_transfer_authority,
                  ctx.fields.market_account,
                  ctx.fields.base_vault,
                  ctx.fields.quote_vault,
                  ctx.fields.user_base_ata,
                  ctx.fields.user_quote_ata,
                  ctx.fields.token_program,
                  ctx.fields.instructions_sysvar >>
       IN SwapInvoke(SOLFI_PROGRAM_ID, instruction_accounts, account_infos,
                     SolFiSwapInstructionData(in_amount, minimum_out_amount, swap_data))

SolFiV2Swap ==
    /\ pc = "solfi_v2_swap"
    /\ LET instruction_accounts ==
               << writable_signer(ctx.fields.token_transfer_authority.address),
                  writable(ctx.fields.market_account.address),
                  readonly(ctx.fields.oracle_account.address),
                  readonly(ctx.fields.config_account.address),
                  writable(ctx.fields.base_vault.address),
                  writable(ctx.fields.quote_vault.address),
                  writable(ctx.fields.user_base_ata.address),
                  writable(ctx.fields.user_quote_ata.address),
                  readonly(ctx.fields.base_mint.address),
                  readonly(ctx.fields.quote_mint.address),
                  readonly(ctx.fields.base_token_program.address),
                  readonly(ctx.fields.quote_token_program.address),
                  readonly(ctx.fields.instructions_sysvar.address) >>
           account_infos ==
               << ctx.fields.token_transfer_authority,
                  ctx.fields.market_account,
                  ctx.fields.oracle_account,
                  ctx.fields.config_account,
                  ctx.fields.base_vault,
                  ctx.fields.quote_vault,
                  ctx.fields.user_base_ata,
                  ctx.fields.user_quote_ata,
                  ctx.fields.base_mint,
                  ctx.fields.quote_mint,
                  ctx.fields.base_token_program,
                  ctx.fields.quote_token_program,
                  ctx.fields.instructions_sysvar >>
       IN SwapInvoke(SOLFI_V2_PROGRAM_ID, instruction_accounts, account_infos,
                     SolFiV2SwapInstructionData(in_amount, minimum_out_amount, swap_data))

ManifestSwap ==
    /\ pc = "manifest_swap"
    /\ LET instruction_accounts ==
               << writable_signer(ctx.fields.payer.address),
                  readonly_signer(ctx.fields.owner.address),
                  writable(ctx.fields.market.address),
                  readonly(ctx.fields.system_program.address),
                  writable(ctx.fields.trader_base.address),
                  writable(ctx.fields.trader_quote.address),
                  writable(ctx.fields.base_vault.address),
                  writable(ctx.fields.quote_vault.address),
                  readonly(ctx.fields.token_program_base.address),
                  readonly(ctx.fields.base_mint.address),
                  readonly(ctx.fields.token_program_quote.address),
                  readonly(ctx.fields.quote_mint.address),
                  writable(ctx.fields.global.address),
                  writable(ctx.fields.global_vault.address) >>
           account_infos ==
               << ctx.fields.payer,
                  ctx.fields.owner,
                  ctx.fields.market,
                  ctx.fields.system_program,
                  ctx.fields.trader_base,
                  ctx.fields.trader_quote,
                  ctx.fields.base_vault,
                  ctx.fields.quote_vault,
                  ctx.fields.token_program_base,
                  ctx.fields.base_mint,
                  ctx.fields.token_program_quote,
                  ctx.fields.quote_mint,
                  ctx.fields.global,
                  ctx.fields.global_vault >>
       IN SwapInvoke(MANIFEST_PROGRAM_ID, instruction_accounts, account_infos,
                     ManifestSwapInstructionData(in_amount, minimum_out_amount, swap_data))

HeavenSwap ==
    /\ pc = "heaven_swap"
    /\ LET instruction_accounts ==
               << readonly(ctx.fields.token_a_owner.address),
                  readonly(ctx.fields.token_b_owner.address),
                  readonly(ctx.fields.ata_program.address),
                  readonly(ctx.fields.system_program.address),
                  writable(ctx.fields.pool_state.address),
                  readonly_signer(ctx.fields.user.address),
                  readonly(ctx.fields.token_a_mint.address),
                  readonly(ctx.fields.token_b_mint.address),
                  writable(ctx.fields.user_token_a_account.address),
                  writable(ctx.fields.user_token_b_account.address),
                  writable(ctx.fields.pool_token_a_account.address),
                  writable(ctx.fields.pool_token_b_account.address),
                  writable(ctx.fields.protocol_config.address),
                  readonly(ctx.fields.ix_sysvar.address),
                  readonly(ctx.fields.chainlink_id.address),
                  readonly(ctx.fields.chainlink_sol_usd_feed.address) >>
           account_infos ==
               << ctx.fields.token_a_owner,
                  ctx.fields.token_b_owner,
                  ctx.fields.ata_program,
                  ctx.fields.system_program,
                  ctx.fields.pool_state,
                  ctx.fields.user,
                  ctx.fields.token_a_mint,
                  ctx.fields.token_b_mint,
                  ctx.fields.user_token_a_account,
                  ctx.fields.user_token_b_account,
                  ctx.fields.pool_token_a_account,
                  ctx.fields.pool_token_b_account,
                  ctx.fields.protocol_config,
                  ctx.fields.ix_sysvar,
                  ctx.fields.chainlink_id,
                  ctx.fields.chainlink_sol_usd_feed >>
           event_len == Len(swap_data.event)
       IN IF event_len = 0
          THEN SwapInvoke(HEAVEN_PROGRAM_ID, instruction_accounts, account_infos,
                          HeavenEmptyEventInstructionData(in_amount, minimum_out_amount, swap_data))
          ELSE IF event_len > MAX_EVENT_LEN
          THEN /\ pc' = "done"
               /\ result' = Err(InvalidInstructionData)
               /\ UNCHANGED <<op, entry, proto, enabled, accounts, instruction_data, extra_data, in_amount, minimum_out_amount, swap_data, amount, signer_seeds, ctx, i, cpis, cpi_results>>
          ELSE SwapInvoke(HEAVEN_PROGRAM_ID, instruction_accounts, account_infos,
                          HeavenEventInstructionData(in_amount, minimum_out_amount, swap_data))

AldrinSwap ==
    /\ pc = "aldrin_swap"
    /\ LET instruction_accounts ==
               << readonly(ctx.fields.pool.address),
                  readonly(ctx.fields.pool_signer.address),
                  writable(ctx.fields.pool_mint.address),
                  writable(ctx.fields.base_token_vault.address),
                  writable(ctx.fields.quote_token_vault.address),
                  writable(ctx.fields.fee_pool_token_account.address),
                  readonly_signer(ctx.fields.wallet_authority.address),
                  writable(ctx.fields.user_base_token_account.address),
                  writable(ctx.fields.user_quote_token_account.address),
                  readonly(ctx.fields.token_program.address) >>
           account_infos ==
               << ctx.fields.pool,
                  ctx.fields.pool_signer,
                  ctx.fields.pool_mint,
                  ctx.fields.base_token_vault,
                  ctx.fields.quote_token_vault,
                  ctx.fields.fee_pool_token_account,
                  ctx.fields.wallet_authority,
                  ctx.fields.user_base_token_account,
                  ctx.fields.user_quote_token_account,
                  ctx.fields.token_program >>
       IN SwapInvoke(ALDRIN_PROGRAM_ID, instruction_accounts, account_infos,
                     AldrinSwapInstructionData(in_amount, minimum_out_amount, swap_data))

AldrinV2Swap ==
    /\ pc = "aldrin_v2_swap"
    /\ LET instruction_accounts ==
               << readonly(ctx.fields.pool.address),
                  readonly(ctx.fields.pool_signer.address),
                  writable(ctx.fields.pool_mint.address),
                  writable(ctx.fields.base_token_vault.address),
                  writable(ctx.fields.quote_token_vault.address),
                  writable(ctx.fields.fee_pool_token_account.address),
                  readonly_signer(ctx.fields.wallet_authority.address),
                  writable(ctx.fields.user_base_token_account.address),
                  writable(ctx.fields.user_quote_token_account.address),
                  readonly(ctx.fields.curve.address),
                  readonly(ctx.fields.token_program.address) >>
           account_infos ==
               << ctx.fields.pool,
                  ctx.fields.pool_signer,
                  ctx.fields.pool_mint,
                  ctx.fields.base_token_vault,
                  ctx.fields.quote_token_vault,
                  ctx.fields.fee_pool_token_account,
                  ctx.fields.wallet_authority,
                  ctx.fields.user_base_token_account,
                  ctx.fields.user_quote_token_account,
                  ctx.fields.curve,
                  ctx.fields.token_program >>
       IN SwapInvoke(ALDRIN_V2_PROGRAM_ID, instruction_accounts, account_infos,
                     AldrinV2SwapInstructionData(in_amount, minimum_out_amount, swap_data))

FutarchySwap ==
    /\ pc = "futarchy_swap"
    /\ LET instruction_accounts ==
               << writable(ctx.fields.dao.address),
                  writable(ctx.fields.user_base_account.address),
                  writable(ctx.fields.user_quote_account.address),
                  writable(ctx.fields.amm_base_vault.address),
                  writable(ctx.fields.amm_quote_vault.address),
                  readonly_signer(ctx.fields.user.address),
                  readonly(ctx.fields.token_program.address),
                  readonly(ctx.fields.event_authority.address),
                  readonly(ctx.fields.program.address) >>
           account_infos ==
               << ctx.fields.dao,
                  ctx.fields.user_base_account,
                  ctx.fields.user_quote_account,
                  ctx.fields.amm_base_vault,
                  ctx.fields.amm_quote_vault,
                  ctx.fields.user,
                  ctx.fields.token_program,
                  ctx.fields.event_authority,
                  ctx.fields.program >>
       IN SwapInvoke(FUTARCHY_PROGRAM_ID, instruction_accounts, account_infos,
                     FutarchySwapInstructionData(in_amount, minimum_out_amount, swap_data))

GammaSwap ==
    /\ pc = "gamma_swap"
    /\ LET instruction_accounts ==
               << readonly_signer(ctx.fields.payer.address),
                  readonly(ctx.fields.authority.address),
                  readonly(ctx.fields.amm_config.address),
                  writable(ctx.fields.pool_state.address),
                  writable(ctx.fields.input_token_account.address),
                  writable(ctx.fields.output_token_account.address),
                  writable(ctx.fields.input_vault.address),
                  writable(ctx.fields.output_vault.address),
                  readonly(ctx.fields.input_token_program.address),
                  readonly(ctx.fields.output_token_program.address),
                  readonly(ctx.fields.input_token_mint.address),
                  readonly(ctx.fields.output_token_mint.address),
                  writable(ctx.fields.observation_state.address) >>
           account_infos ==
               << ctx.fields.payer,
                  ctx.fields.authority,
                  ctx.fields.amm_config,
                  ctx.fields.pool_state,
                  ctx.fields.input_token_account,
                  ctx.fields.output_token_account,
                  ctx.fields.input_vault,
                  ctx.fields.output_vault,
                  ctx.fields.input_token_program,
                  ctx.fields.output_token_program,
                  ctx.fields.input_token_mint,
                  ctx.fields.output_token_mint,
                  ctx.fields.observation_state >>
       IN SwapInvoke(GAMMA_PROGRAM_ID, instruction_accounts, account_infos,
                     GammaSwapInstructionData(in_amount, minimum_out_amount))

Next ==
    \/ ProcessInstruction
    \/ ParseDepositInstructionData
    \/ ParseAccounts
    \/ ParseSwapInstructionData
    \/ FreeSwap
    \/ DetectSwap
    \/ DetectDeposit
    \/ ParseSwapData
    \/ ContextSwap
    \/ ContextDeposit
    \/ AdapterUnsigned
    \/ DispatchSwap
    \/ DispatchDeposit
    \/ PerenaSwap
    \/ SolFiSwap
    \/ SolFiV2Swap
    \/ ManifestSwap
    \/ HeavenSwap
    \/ AldrinSwap
    \/ AldrinV2Swap
    \/ FutarchySwap
    \/ GammaSwap
    \/ KaminoRefreshReserve
    \/ KaminoRefreshTail
    \/ KaminoRefreshObligation
    \/ KaminoDeposit
    \/ JupiterDeposit

Spec == Init /\ [][Next]_vars

----------------------------------------------------------------------------
(* Properties *)

Min(a, b) == IF a < b THEN a ELSE b

\* a Kamino context is driving the deposit sequence
KaminoCall == op = "deposit" /\ ctx.tag = "Kamino"
TailLen == Len(ctx.reserve_accounts)

\* what the j-th CPI of a Kamino deposit with k tail reserves has to be
IsTargetRefresh(inv) ==
    /\ inv.data = <<2, 218, 138, 235, 79, 201, 25, 102>>
    /\ inv.accounts[1] = writable(ctx.fields.reserve.address)
IsTailRefresh(inv, r) ==
    /\ inv.data = <<2, 218, 138, 235, 79, 201, 25, 102>>
    /\ inv.accounts[1] = writable(r.address)
IsObligationRefresh(inv) ==
    /\ inv.data = <<33, 132, 147, 228, 151, 192, 72, 89>>
    /\ inv.accounts[1] = writable(ctx.fields.obligation.address)
IsDepositCall(inv) ==
    /\ Len(inv.data) = 16
    /\ SubSeq(inv.data, 1, 8) = <<216, 224, 191, 27, 204, 151, 102, 175>>
    /\ Len(inv.accounts) = 17

ExpectedAt(j, inv) ==
    IF j = 1 THEN IsTargetRefresh(inv)
    ELSE IF j <= TailLen + 1 THEN IsTailRefresh(inv, ctx.reserve_accounts[j - 1])
    ELSE IF j = TailLen + 2 THEN IsObligationRefresh(inv)
    ELSE IF j = TailLen + 3 THEN IsDepositCall(inv)
    ELSE FALSE

\* C1: the CPIs of Kamino::deposit_signed are issued in the order target refresh,
\* one refresh per accepted tail reserve in tail order, obligation refresh, deposit;
\* every CPI but the last issued one has returned successfully, and a deposit CPI
\* is never followed by another CPI.
C1_CpiOrder ==
    KaminoCall =>
        /\ Len(cpis) <= TailLen + 3
        /\ Len(cpi_results) = Len(cpis)
        /\ \A j \in 1..Len(cpis) : ExpectedAt(j, cpis[j])
        /\ \A j \in 1..(Len(cpis) - 1) : cpi_results[j] = Ok
        /\ \A j \in 1..Len(cpis) : IsDepositCall(cpis[j]) => j = Len(cpis)

C1_Witness ==
    /\ KaminoCall /\ pc = "done" /\ result = Ok
    /\ TailLen = 3 /\ Len(cpis) = 6
    /\ ctx.reserve_accounts[1].address # ctx.reserve_accounts[2].address

\* C2: when a CPI of the Kamino deposit sequence returns a failure, deposit_signed
\* has returned exactly that failure value and the failing CPI is the last one
\* issued: nothing is issued after it (no deposit after a failed refresh, no retry).
C2_FirstFailureReturned ==
    KaminoCall =>
        \A j \in 1..Len(cpis) :
            cpi_results[j] # Ok =>
                /\ j = Len(cpis)
                /\ pc = "done"
                /\ result = cpi_results[j]
                /\ (j < TailLen + 3 => \A m \in 1..Len(cpis) : ~IsDepositCall(cpis[m]))

\* C2, as a step property: once deposit_signed has returned, no CPI is issued and
\* the returned value does not change.
C2_NothingAfterReturn ==
    [][pc = "done" => (cpis' = cpis /\ result' = result)]_vars

C2_Witness ==
    /\ KaminoCall /\ pc = "done"
    /\ TailLen = 2 /\ Len(cpis) = 3
    /\ cpi_results[3] = Err("Custom(6001)") /\ result = Err("Custom(6001)")

\* C3: a Kamino deposit with k accepted tail reserves in which every CPI succeeds
\* issues exactly k + 3 CPIs: one target refresh, k tail refreshes, one obligation
\* refresh whose metadata is the obligation, the lending market and then exactly
\* the k reserves, and one deposit; 0 <= k <= 13.
C3_CallCount ==
    (KaminoCall /\ pc = "done" /\ \A j \in 1..Len(cpis) : cpi_results[j] = Ok) =>
        /\ TailLen \in 0..13
        /\ Len(cpis) = TailLen + 3
        /\ Cardinality({j \in 1..Len(cpis) : cpis[j].data = <<2, 218, 138, 235, 79, 201, 25, 102>>}) = TailLen + 1
        /\ Cardinality({j \in 1..Len(cpis) : cpis[j].data = <<33, 132, 147, 228, 151, 192, 72, 89>>}) = 1
        /\ Cardinality({j \in 1..Len(cpis) : IsDepositCall(cpis[j])}) = 1
        /\ cpis[TailLen + 2].accounts =
              <<writable(ctx.fields.obligation.address), readonly(ctx.fields.lending_market.address)>>
              \o [j \in 1..TailLen |-> readonly(ctx.reserve_accounts[j].address)]
        /\ result = Ok

\* the scenario of the claim: two tail reserves, five calls
C3_Witness ==
    /\ KaminoCall /\ pc = "done" /\ result = Ok
    /\ TailLen = 2 /\ Len(cpis) = 5
    /\ Len(cpis[4].accounts) = 4

\* the accounts after index 18 and the longest prefix of them owned by the lending program
AfterPrefix == SubSeq(accounts, 20, Len(accounts))
OwnedPrefixLen ==
    CHOOSE n \in 0..Len(AfterPrefix) :
        /\ \A j \in 1..n : AfterPrefix[j].owner = ZeroAddress
        /\ (n < Len(AfterPrefix) => AfterPrefix[n + 1].owner # ZeroAddress)

\* C4: reserve_accounts is the longest prefix of the accounts after index 18 whose
\* accounts are all owned by the Kamino lending program, truncated to 13 entries.
C4_ReservePrefix ==
    (pc # "start" /\ ctx.tag = "Kamino") =>
        ctx.reserve_accounts = SubSeq(AfterPrefix, 1, Min(OwnedPrefixLen, 13))

\* owners [target, target, other, target] give length 2
C4_Witness ==
    /\ pc # "start" /\ ctx.tag = "Kamino"
    /\ Len(AfterPrefix) = 4
    /\ AfterPrefix[1].owner = ZeroAddress /\ AfterPrefix[2].owner = ZeroAddress
    /\ AfterPrefix[3].owner # ZeroAddress /\ AfterPrefix[4].owner = ZeroAddress
    /\ Len(ctx.reserve_accounts) = 2

\* more than 13 consecutive qualifying accounts: the first 13 are taken
C4_CapReached ==
    /\ pc # "start" /\ ctx.tag = "Kamino"
    /\ OwnedPrefixLen > 13
    /\ ctx.reserve_accounts = SubSeq(AfterPrefix, 1, 13)

\* C5: every tail-reserve refresh CPI has the call shape of the target refresh with
\* the tail reserve r in place of the target reserve: metadata [r writable, lending
\* program readonly x3, scope oracle readonly] and r's own account view at
\* position 0 of the account-view list.
C5_TailRefreshShape ==
    KaminoCall =>
        \A j \in 2..Min(Len(cpis), TailLen + 1) :
            LET r == ctx.reserve_accounts[j - 1]
            IN /\ cpis[j].accounts =
                     << writable(r.address),
                        readonly(ctx.fields.kamino_lending_program.address),
                        readonly(ctx.fields.kamino_lending_program.address),
                        readonly(ctx.fields.kamino_lending_program.address),
                        readonly(ctx.fields.scope_oracle.address) >>
               /\ Len(cpis[j].account_infos) = 5
               /\ cpis[j].account_infos[1] = r

Consumed == IF ctx.tag = "Kamino" THEN 19 + TailLen ELSE ClaimedMinimum(ctx.tag)

\* C7: accounts after the consumed ones are ignored: the parsed context is the one
\* obtained from the consumed accounts alone (the first N for a fixed-arity
\* protocol, the prefix and the accepted tail for Kamino), and no CPI mentions an
\* account view or address taken from behind them.
C7_TrailingIgnored ==
    /\ (op = "parse" /\ pc = "done" /\ Len(accounts) >= ClaimedMinimum(proto)) =>
          (result = Ok /\ ctx.tag = proto)
    /\ (pc # "start" /\ ctx.tag # "None") =>
        /\ Len(accounts) >= Consumed
        /\ AccountsTryFrom(ctx.tag, SubSeq(accounts, 1, Consumed)).ctx = ctx
        /\ \A j \in 1..Len(cpis) :
              /\ \A m \in 1..Len(cpis[j].account_infos) : cpis[j].account_infos[m].idx <= Consumed
              /\ \A m \in 1..Len(cpis[j].accounts) :
                    \E n \in 1..Consumed : accounts[n].address = cpis[j].accounts[m].address

C7_Witness ==
    /\ op = "parse" /\ pc = "done" /\ proto = "Manifest"
    /\ Len(accounts) = 20 /\ result = Ok
    /\ accounts[16].address # accounts[15].address

\* trailing accounts behind a Kamino tail that stopped early, with the sequence run to its end
C7_KaminoTrailing ==
    /\ KaminoCall /\ pc = "done" /\ result = Ok
    /\ TailLen = 1 /\ Len(accounts) = 22

\* the compiled-in detection order
SwapOrder == <<"Perena", "SolFi", "SolFiV2", "Manifest", "Heaven", "Aldrin", "AldrinV2", "Futarchy", "Gamma">>
DepositOrder == <<"Kamino", "Jupiter">>
DetectionOrder == IF op = "swap" THEN SwapOrder ELSE DepositOrder

\* positions in the detection order of the enabled protocols whose address account 0 carries
Matches ==
    {j \in 1..Len(DetectionOrder) :
        DetectionOrder[j] \in enabled /\ accounts[1].address = ProgramId(DetectionOrder[j])}
FirstMatch == DetectionOrder[CHOOSE j \in Matches : \A m \in Matches : j <= m]

Detected == op \in {"swap", "deposit"} /\ pc # "start"

\* C8: detection returns NotEnoughAccountKeys on an empty slice, InvalidAccountData
\* when account 0 carries the address of no enabled protocol, and otherwise the
\* result of the first enabled protocol in the compiled-in order whose address
\* matches: its variant (its parser's failure when the slice is too short for it).
C8_FirstMatch ==
    Detected =>
        /\ accounts = <<>> => (ctx.tag = "None" /\ pc = "done" /\ result = Err("NotEnoughAccountKeys"))
        /\ (accounts # <<>> /\ Matches = {}) =>
              (ctx.tag = "None" /\ pc = "done" /\ result = Err("InvalidAccountData"))
        /\ (accounts # <<>> /\ Matches # {}) =>
              IF Len(accounts) >= ClaimedMinimum(FirstMatch)
              THEN ctx.tag = FirstMatch
              ELSE ctx.tag = "None" /\ pc = "done" /\ result = Err("NotEnoughAccountKeys")

\* both deposit adapters enabled and account 0 carrying their address
C8_Witness ==
    /\ Detected /\ op = "deposit" /\ enabled = {"Kamino", "Jupiter"}
    /\ Len(accounts) = 19 /\ Cardinality(Matches) = 2
    /\ ctx.tag = "Kamino"

C8_NoMatch ==
    /\ Detected /\ op = "swap" /\ enabled = SwapProtocols
    /\ accounts # <<>> /\ Matches = {} /\ result = Err("InvalidAccountData")

DistinctAddresses(S) == \A x \in S, y \in S : x # y => ProgramId(x) # ProgramId(y)

\* C9: with pairwise distinct program addresses in the enabled set S, a slice whose
\* account 0 carries X's address, X in S, and which is long enough for X, yields
\* the X variant, and the same context as detection with X alone enabled.
C9_EnabledSetIndependent ==
    (Detected /\ accounts # <<>> /\ DistinctAddresses(enabled)) =>
        \A X \in enabled :
            (accounts[1].address = ProgramId(X) /\ Len(accounts) >= ClaimedMinimum(X)) =>
                /\ ctx.tag = X
                /\ result # Err("InvalidAccountData")
                /\ ctx = TryFromContext(IF op = "swap" THEN SwapArms ELSE DepositArms,
                                        accounts, {X}).ctx

C9_Witness ==
    /\ Detected /\ op = "swap" /\ Cardinality(enabled) = 4
    /\ {"Perena", "Gamma", "SolFiV2"} \subseteq enabled
    /\ accounts # <<>> /\ accounts[1].address = ProgramId("SolFiV2")
    /\ Len(accounts) = 14 /\ ctx.tag = "SolFiV2"

\* C10: the program addresses of the compiled-in protocols are pairwise distinct,
\* and with both deposit adapters enabled account 0 = Jupiter Earn's address yields
\* DepositContext::Jupiter and account 0 = Kamino's address yields DepositContext::Kamino.
C10_DistinctAndReachable ==
    (Detected /\ op = "deposit" /\ enabled = {"Kamino", "Jupiter"} /\ Len(accounts) >= 19) =>
        /\ DistinctAddresses(Protocols)
        /\ accounts[1].address = JUPITER_EARN_PROGRAM_ID => ctx.tag = "Jupiter"
        /\ accounts[1].address = KAMINO_LEND_PROGRAM_ID => ctx.tag = "Kamino"

----------------------------------------------------------------------------
(* Properties of the swap path *)

\* try_from_swap_data has been called on a context and has returned
PayloadParsed ==
    /\ op \in {"process", "context"}
    /\ ctx.tag # "None"
    /\ pc \notin {"start", "detect", "swap_data"}

\* SwapContext::swap_signed has been called on a context and a payload and has
\* taken an arm of its match
SwapDispatched ==
    /\ op \in {"process", "free", "context"}
    /\ ctx.tag # "None"
    /\ swap_data # NoData
    /\ pc \notin {"start", "detect", "free_swap_signed", "swap_data", "swap", "swap_signed"}

\* offsets of in_amount and minimum_out_amount in a protocol's instruction bytes
InOffset(p) ==
    CASE p \in {"Aldrin", "AldrinV2", "Gamma", "Heaven", "Futarchy"} -> 8
      [] p \in {"Manifest", "SolFi", "SolFiV2"} -> 1
      [] p = "Perena" -> 10

OutOffset(p) ==
    CASE p \in {"Aldrin", "AldrinV2", "Gamma", "Heaven"} -> 16
      [] p \in {"Manifest", "SolFi", "SolFiV2"} -> 9
      [] p = "Perena" -> 18
      [] p = "Futarchy" -> 17

\* the eight bytes at an offset, read as a little-endian u64 (four 16-bit limbs)
U64At(bytes, off) == [k \in 1..4 |-> bytes[off + 2 * k - 1] + 256 * bytes[off + 2 * k]]

\* C11: try_from_swap_data chooses the payload parser by the variant of the
\* context and never by the accounts: on success the payload carries the tag of
\* the context and is what that protocol's parser returns for the bytes, also
\* when account 0 names another protocol's program; on failure the parser's
\* error is returned; and every swap protocol, Gamma included, has bytes for
\* which it succeeds.
C11_ParserByVariant ==
    /\ PayloadParsed /\ swap_data # NoData =>
          /\ swap_data.tag = ctx.tag
          /\ swap_data = SwapDataTryFrom(ctx.tag, extra_data).data
    /\ PayloadParsed /\ swap_data = NoData =>
          /\ SwapDataTryFrom(ctx.tag, extra_data).res # Ok
          /\ result = SwapDataTryFrom(ctx.tag, extra_data).res
          /\ pc = "done" /\ cpis = <<>>
    /\ \A p \in SwapProtocols : \E e \in ExtraChoices :
          /\ SwapDataTryFrom(p, e).res = Ok
          /\ SwapDataTryFrom(p, e).data.tag = p

\* a Perena context built over a slice whose account 0 is Gamma's program: the
\* payload parsed is Perena's
C11_Witness ==
    /\ op = "context" /\ PayloadParsed
    /\ ctx.tag = "Perena" /\ accounts[1].address = GAMMA_PROGRAM_ID
    /\ extra_data = <<2, 1>>
    /\ swap_data = [tag |-> "Perena", in_index |-> 2, out_index |-> 1]

\* C12: SwapContext::swap_signed with a context and a payload of different
\* protocols returns InvalidAccountData and issues no CPI, for every pair of
\* distinct tags; with equal tags the only CPI that can follow goes to that
\* protocol's program, with the accounts of the context, the caller's seeds and
\* instruction bytes that carry the two amounts, and its result is returned.
C12_MismatchRejected ==
    SwapDispatched =>
        IF ctx.tag # swap_data.tag
        THEN pc = "done" /\ result = Err(InvalidAccountData) /\ cpis = <<>>
        ELSE \/ pc = AdapterPc(ctx.tag) /\ result = Pending /\ cpis = <<>>
             \/ /\ pc = "done" /\ Len(cpis) = 1
                /\ cpis[1].program_id = ProgramId(ctx.tag)
                /\ Range(cpis[1].account_infos) \subseteq Range(accounts)
                /\ cpis[1].signers = signer_seeds
                /\ U64At(cpis[1].data, InOffset(ctx.tag)) = in_amount
                /\ U64At(cpis[1].data, OutOffset(ctx.tag)) = minimum_out_amount
                /\ result = cpi_results[1]
             \/ /\ pc = "done" /\ cpis = <<>>
                /\ ctx.tag = "Heaven" /\ Len(swap_data.event) > MAX_EVENT_LEN
                /\ result = Err(InvalidInstructionData)

\* a Gamma context with a Perena payload is rejected
C12_Witness ==
    /\ SwapDispatched
    /\ ctx.tag = "Gamma" /\ swap_data.tag = "Perena"
    /\ result = Err(InvalidAccountData) /\ cpis = <<>>

\* C13 (as stated): a call through the free functions swap and swap_signed never
\* ends in the context/payload mismatch failure.
C13_FreeNeverMismatch ==
    op = "free" /\ SwapDispatched => ~(ctx.tag # swap_data.tag /\ result = Err(InvalidAccountData))

\* C13 (amended): the entry glue derives the payload from the detected context
\* with try_from_swap_data, so its payload always carries the tag of the context
\* and its call of SwapContext::swap never takes the mismatch arm; the free
\* functions take the payload from their caller and end in InvalidAccountData
\* with no CPI exactly when its tag differs from the detected context's.
C13_DerivedNeverMismatch ==
    /\ op = "process" /\ swap_data # NoData => swap_data.tag = ctx.tag
    /\ op = "process" /\ result = Err(InvalidAccountData) => ctx.tag = "None" /\ swap_data = NoData
    /\ op = "free" /\ SwapDispatched =>
          ((result = Err(InvalidAccountData) /\ cpis = <<>> /\ pc = "done") <=> ctx.tag # swap_data.tag)

\* the free function swap_signed, handed Perena's accounts and a SolFi payload
C13_Witness ==
    /\ op = "free" /\ entry = "swap_signed" /\ SwapDispatched
    /\ ctx.tag = "Perena" /\ swap_data.tag = "SolFi"
    /\ pc = "done" /\ result = Err(InvalidAccountData) /\ cpis = <<>>


\* the call stands at a function that takes no seeds: SwapContext::swap,
\* DepositContext::deposit, an adapter's swap / deposit, the free function swap
AtUnsignedCall ==
    \/ pc \in {"swap", "deposit", "adapter_unsigned"}
    \/ op = "free" /\ entry = "swap" /\ pc = "start"

\* the signed function the unsigned one stands for
SignedCounterpart ==
    CASE pc = "swap" -> "swap_signed"
      [] pc = "deposit" -> "deposit_signed"
      [] pc = "adapter_unsigned" -> AdapterPc(ctx.tag)
      [] OTHER -> "free_swap_signed"

\* C14: for every adapter, both dispatch enums and the free functions, swap and
\* deposit are the signed function called with the same context, amounts and
\* payload and with empty seeds: the step into the signed function changes
\* nothing but the seeds, which become empty, so every CPI that follows is the one
\* the signed call with empty seeds issues and carries no signer.
C14_UnsignedIsSignedWithEmptySeeds ==
    [][ /\ AtUnsignedCall =>
              /\ signer_seeds' = <<>>
              /\ pc' = SignedCounterpart
              /\ UNCHANGED <<op, entry, proto, enabled, accounts, ctx, in_amount, minimum_out_amount,
                             swap_data, amount, i, cpis, cpi_results, result>>
        /\ entry \in {"swap", "deposit", "process"} /\ Len(cpis') > Len(cpis) =>
              /\ cpis'[Len(cpis')].signers = <<>>
              /\ signer_seeds = <<>>
      ]_vars

\* DepositContext::deposit on a Kamino context with one tail reserve: all four CPIs
\* went out without signers and the call returned Ok
C14_Witness ==
    /\ op = "deposit" /\ entry = "deposit" /\ ctx.tag = "Kamino"
    /\ pc = "done" /\ result = Ok
    /\ Len(cpis) = 4
    /\ \A k \in 1..Len(cpis) : cpis[k].signers = <<>>

\* an adapter's own swap: Manifest::swap issued its CPI without signers
C14_AdapterSwap ==
    /\ op = "adapter" /\ entry = "swap" /\ ctx.tag = "Manifest"
    /\ pc = "done" /\ Len(cpis) = 1 /\ cpis[1].signers = <<>>


\* payloads that start with an enum byte
EnumPayloads == {"Aldrin", "AldrinV2", "Futarchy", "Heaven"}

\* the variant the typed payload holds: "first" for the variant declared with
\* value 0, "second" for the one declared with value 1
VariantOf(d) ==
    CASE d.tag \in {"Aldrin", "AldrinV2"} -> IF d.side = "Bid" THEN "first" ELSE "second"
      [] d.tag = "Futarchy" -> IF d.swap_type = "Buy" THEN "first" ELSE "second"
      [] d.tag = "Heaven" -> IF d.direction = "Buy" THEN "first" ELSE "second"

\* the enum byte was parsed as the claim says: 0 is the first variant, 1 the
\* second, anything else (or no byte) is InvalidInstructionData and no CPI
EnumByteParsed ==
    PayloadParsed /\ ctx.tag \in EnumPayloads =>
        IF Len(extra_data) > 0 /\ extra_data[1] \in {0, 1}
        THEN /\ swap_data # NoData
             /\ VariantOf(swap_data) = (IF extra_data[1] = 0 THEN "first" ELSE "second")
        ELSE /\ swap_data = NoData
             /\ result = Err(InvalidInstructionData)
             /\ cpis = <<>>

\* the CPI of an enum-carrying payload that came from bytes has been issued
EnumCpiIssued(tags) == PayloadParsed /\ ctx.tag \in tags /\ Len(cpis) = 1

C15_HeavenSell ==
    /\ EnumCpiIssued({"Heaven"})
    /\ extra_data = <<1>>
    /\ SubSeq(cpis[1].data, 25, 28) = <<0, 0, 0, 0>>


\* fewest protocol-specific bytes each payload parser accepts
MinPayload(p) ==
    CASE p \in {"Perena", "Manifest"} -> 2
      [] p \in {"SolFi", "SolFiV2", "Aldrin", "AldrinV2", "Futarchy"} -> 1

\* protocols whose first payload byte must name an enum variant
Discriminated == {"Aldrin", "AldrinV2", "Futarchy"}

\* C16: the payload parsers of Perena, Manifest, SolFi, SolFiV2, Aldrin, AldrinV2
\* and Futarchy return InvalidInstructionData (and nothing is invoked) when the
\* bytes after the two amounts are fewer than the protocol's minimum (2, 2, 1, 1,
\* 1, 1, 1), and succeed for every input of at least that length whose
\* discriminator byte, where the protocol has one, is 0 or 1.
C16_PayloadMinimum ==
    PayloadParsed /\ ctx.tag \in SwapProtocols \ {"Heaven", "Gamma"} =>
        /\ Len(extra_data) < MinPayload(ctx.tag) =>
              /\ swap_data = NoData
              /\ result = Err(InvalidInstructionData)
              /\ pc = "done" /\ cpis = <<>>
        /\ (Len(extra_data) >= MinPayload(ctx.tag)
              /\ (ctx.tag \in Discriminated => extra_data[1] \in {0, 1})) =>
              /\ swap_data # NoData
              /\ swap_data.tag = ctx.tag

\* Perena handed a single byte: rejected
C16_Witness ==
    /\ PayloadParsed /\ ctx.tag = "Perena"
    /\ Len(extra_data) = 1
    /\ result = Err(InvalidInstructionData) /\ cpis = <<>>

\* Manifest handed exactly two bytes: accepted
C16_ManifestAccepted ==
    /\ PayloadParsed /\ ctx.tag = "Manifest"
    /\ Len(extra_data) = 2
    /\ swap_data.tag = "Manifest"


\* a swap adapter has issued its CPI (on any path that reaches an adapter)
SwapCpiIssued == ctx.tag \in SwapProtocols /\ Len(cpis) = 1

\* a deposit adapter has issued its deposit CPI: Jupiter's only call, Kamino's last
DepositCpiIssued ==
    /\ ctx.tag \in DepositProtocols
    /\ Len(cpis) > 0
    /\ Len(cpis[Len(cpis)].data) > 8
    /\ op \in {"deposit", "adapter"}

\* the selector bytes each protocol's instruction starts with
Selector(p, d) ==
    CASE p = "Perena" -> <<104, 104, 131, 86, 161, 189, 180, 216>>
      [] p \in {"SolFi", "SolFiV2"} -> <<7>>
      [] p = "Manifest" -> <<13>>
      [] p \in {"Aldrin", "AldrinV2", "Futarchy"} -> <<248, 198, 158, 145, 225, 117, 135, 200>>
      [] p = "Gamma" -> <<239, 82, 192, 187, 160, 26, 223, 223>>
      [] p = "Heaven" -> IF d.direction = "Buy" THEN <<102, 6, 61, 18, 1, 218, 235, 234>>
                                               ELSE <<51, 230, 133, 164, 1, 127, 131, 173>>
      [] p = "Kamino" -> <<216, 224, 191, 27, 204, 151, 102, 175>>
      [] p = "Jupiter" -> <<242, 35, 198, 137, 82, 225, 242, 182>>

\* the length of each protocol's instruction layout; Heaven's layout is its 28
\* fixed bytes followed by the event
LayoutLength(p, d) ==
    CASE p = "Perena" -> 26
      [] p \in {"SolFi", "SolFiV2"} -> 18
      [] p = "Manifest" -> 19
      [] p \in {"Aldrin", "AldrinV2", "Futarchy"} -> 25
      [] p = "Gamma" -> 24
      [] p = "Heaven" -> 28 + Len(d.event)
      [] p \in {"Kamino", "Jupiter"} -> 16

\* C17: reading the CPI bytes back at the protocol's offsets as little-endian u64
\* gives the inputs: in_amount and minimum_out_amount at 8..16 / 16..24 (Aldrin,
\* AldrinV2, Gamma, Heaven), 1..9 / 9..17 (Manifest, SolFi, SolFiV2), 10..18 /
\* 18..26 (Perena), 8..16 / 17..25 (Futarchy), the deposit amount at 8..16
\* (Kamino, Jupiter); the bytes start with the protocol's selector and their
\* number is the length of the protocol's layout.
C17_AmountsRoundTrip ==
    /\ SwapCpiIssued =>
          LET bytes == cpis[1].data
          IN /\ U64At(bytes, InOffset(ctx.tag)) = in_amount
             /\ U64At(bytes, OutOffset(ctx.tag)) = minimum_out_amount
             /\ SubSeq(bytes, 1, Len(Selector(ctx.tag, swap_data))) = Selector(ctx.tag, swap_data)
             /\ Len(bytes) = LayoutLength(ctx.tag, swap_data)
             /\ \A k \in 1..Len(bytes) : bytes[k] \in 0..255
    /\ DepositCpiIssued =>
          LET bytes == cpis[Len(cpis)].data
          IN /\ U64At(bytes, 8) = amount
             /\ SubSeq(bytes, 1, 8) = Selector(ctx.tag, swap_data)
             /\ Len(bytes) = LayoutLength(ctx.tag, swap_data)
             /\ \A k \in 1..Len(bytes) : bytes[k] \in 0..255

\* Perena through the entry glue, with amounts whose sixteen bytes are all different
C17_Witness ==
    /\ op = "process" /\ SwapCpiIssued /\ ctx.tag = "Perena"
    /\ in_amount = <<513, 1027, 1541, 2055>>
    /\ SubSeq(cpis[1].data, 11, 18) = <<1, 2, 3, 4, 5, 6, 7, 8>>
    /\ minimum_out_amount = <<57600, 1525, 0, 65535>>
    /\ SubSeq(cpis[1].data, 19, 26) = <<0, 225, 245, 5, 0, 0, 255, 255>>

\* a Kamino deposit CPI carries the amount at 8..16
C17_KaminoAmount ==
    /\ DepositCpiIssued /\ ctx.tag = "Kamino"
    /\ amount = <<57600, 1525, 0, 65535>>
    /\ SubSeq(cpis[Len(cpis)].data, 9, 16) = <<0, 225, 245, 5, 0, 0, 255, 255>>

\* the bytes that follow a protocol's selector in its instruction
AfterSelector(p, d, bytes) == SubSeq(bytes, Len(Selector(p, d)) + 1, Len(bytes))

\* selector, then in_amount, then minimum_out_amount, then whatever else
AmountsFollowSelector(p, d, bytes) ==
    /\ SubSeq(bytes, 1, Len(Selector(p, d))) = Selector(p, d)
    /\ Len(AfterSelector(p, d, bytes)) >= 16
    /\ U64At(AfterSelector(p, d, bytes), 0) = in_amount
    /\ U64At(AfterSelector(p, d, bytes), 8) = minimum_out_amount

\* C18 (as stated): for every protocol the instruction bytes are the selector,
\* then in_amount and minimum_out_amount next to each other in little-endian
\* order, and only then the protocol-specific bytes.
C18_SelectorAmountsRest ==
    SwapCpiIssued => AmountsFollowSelector(ctx.tag, swap_data, cpis[1].data)

\* C18 (amended): that layout holds for SolFi, SolFiV2, Manifest, Heaven, Aldrin,
\* AldrinV2 and Gamma.  Perena puts its two index bytes between the selector and
\* the amounts (selector 0..8, in_index 8, out_index 9, in_amount 10..18,
\* minimum_out_amount 18..26), and Futarchy puts its swap-type byte between the
\* two amounts (selector 0..8, in_amount 8..16, swap type 16, minimum_out_amount
\* 17..25).
C18_LayoutPerProtocol ==
    SwapCpiIssued =>
        LET bytes == cpis[1].data
        IN CASE ctx.tag = "Perena" ->
                  /\ SubSeq(bytes, 1, 8) = Selector("Perena", swap_data)
                  /\ bytes[9] = swap_data.in_index
                  /\ bytes[10] = swap_data.out_index
                  /\ U64At(bytes, 10) = in_amount
                  /\ U64At(bytes, 18) = minimum_out_amount
                  /\ Len(bytes) = 26
             [] ctx.tag = "Futarchy" ->
                  /\ SubSeq(bytes, 1, 8) = Selector("Futarchy", swap_data)
                  /\ U64At(bytes, 8) = in_amount
                  /\ bytes[17] = (IF swap_data.swap_type = "Buy" THEN 0 ELSE 1)
                  /\ U64At(bytes, 17) = minimum_out_amount
                  /\ Len(bytes) = 25
             [] OTHER -> AmountsFollowSelector(ctx.tag, swap_data, bytes)

\* Perena: the bytes behind the selector are the two indexes, not in_amount
C18_Witness ==
    /\ SwapCpiIssued /\ ctx.tag = "Perena"
    /\ swap_data = [tag |-> "Perena", in_index |-> 2, out_index |-> 1]
    /\ in_amount = <<57600, 1525, 0, 0>>
    /\ SubSeq(cpis[1].data, 9, 18) = <<2, 1, 0, 225, 245, 5, 0, 0, 0, 0>>


\* the scenario's instruction bytes: in_amount = 100_000_000, minimum_out_amount = 1,
\* extra = [1, 1]
ManifestScenarioBytes == <<0, 225, 245, 5, 0, 0, 0, 0,  1, 0, 0, 0, 0, 0, 0, 0,  1, 1>>

\* C19: a swap against Manifest with in_amount = 100_000_000, minimum_out_amount
\* = 1 and extra = [1, 1] parses to {is_base_in: true, is_exact_in: true} and
\* issues one CPI whose data is the 19 bytes [13, in_amount LE, minimum_out_amount
\* LE, 1, 1]; and every Manifest CPI has 19 bytes with is_base_in at offset 17 and
\* is_exact_in at offset 18.
C19_ManifestScenario ==
    /\ /\ op = "process" /\ instruction_data = ManifestScenarioBytes
       /\ ctx.tag = "Manifest" /\ pc \notin {"start", "detect", "swap_data"}
       => /\ in_amount = <<57600, 1525, 0, 0>>
          /\ minimum_out_amount = <<1, 0, 0, 0>>
          /\ swap_data = [tag |-> "Manifest", is_base_in |-> TRUE, is_exact_in |-> TRUE]
          /\ pc = "done" =>
                /\ Len(cpis) = 1
                /\ cpis[1].program_id = MANIFEST_PROGRAM_ID
                /\ cpis[1].data = <<13,  0, 225, 245, 5, 0, 0, 0, 0,  1, 0, 0, 0, 0, 0, 0, 0,  1, 1>>
                /\ result = cpi_results[1]
    /\ SwapCpiIssued /\ ctx.tag = "Manifest" =>
          /\ Len(cpis[1].data) = 19
          /\ cpis[1].data[18] = (IF swap_data.is_base_in THEN 1 ELSE 0)
          /\ cpis[1].data[19] = (IF swap_data.is_exact_in THEN 1 ELSE 0)
          /\ PayloadParsed =>
                /\ swap_data.is_base_in = (extra_data[1] # 0)
                /\ swap_data.is_exact_in = (extra_data[2] # 0)

\* the scenario ran to its end and the CPI succeeded
C19_Witness ==
    /\ op = "process" /\ instruction_data = ManifestScenarioBytes
    /\ ctx.tag = "Manifest" /\ pc = "done"
    /\ Len(cpis) = 1 /\ Len(cpis[1].data) = 19
    /\ result = Ok

\* the two flags differ, so their offsets can be told apart
C19_FlagsDiffer ==
    /\ SwapCpiIssued /\ ctx.tag = "Manifest"
    /\ swap_data.is_base_in /\ ~swap_data.is_exact_in
    /\ cpis[1].data[18] = 1 /\ cpis[1].data[19] = 0

\* C20: a swap routed to Heaven with no protocol-specific bytes (extra = []) does
\* not fail at payload parsing or encoding: it issues one CPI whose data is the 28
\* bytes [8-byte discriminator, in_amount LE, minimum_out_amount LE, u32 length 0].
C20_HeavenEmptyExtra ==
    /\ op = "process" /\ ctx.tag = "Heaven" /\ extra_data = <<>>
    /\ Len(instruction_data) = 16 /\ pc = "done"
    => /\ Len(cpis) = 1
       /\ Len(cpis[1].data) = 28
       /\ SubSeq(cpis[1].data, 1, 8) \in {<<102, 6, 61, 18, 1, 218, 235, 234>>,
                                         <<51, 230, 133, 164, 1, 127, 131, 173>>}
       /\ U64At(cpis[1].data, 8) = in_amount
       /\ U64At(cpis[1].data, 16) = minimum_out_amount
       /\ SubSeq(cpis[1].data, 25, 28) = <<0, 0, 0, 0>>
       /\ result = cpi_results[1]

\* what the code does with extra = []: the payload parser rejects it
C20_EmptyExtraRejected ==
    /\ op = "process" /\ ctx.tag = "Heaven" /\ extra_data = <<>>
    /\ Len(instruction_data) = 16 /\ pc = "done"
    /\ result = Err(InvalidInstructionData) /\ cpis = <<>>

\* the 28-byte buffer is what a lone direction byte gives
C20_DirectionOnly ==
    /\ op = "process" /\ ctx.tag = "Heaven" /\ Len(extra_data) = 1
    /\ Len(cpis) = 1 /\ Len(cpis[1].data) = 28

----------------------------------------------------------------------------
(* Signer seeds *)

\* the caller hands seeds in itself; every other entry goes through swap / deposit
SignedEntry == entry \in {"swap_signed", "deposit_signed"}

C24_ThroughDeposit ==
    /\ op = "entrypoint" /\ ctx.tag = "Kamino" /\ pc = "done" /\ result = Ok
    /\ Len(cpis) = 5
    /\ \A j \in 1..5 : cpis[j].signers = <<>>

\* a signed swap
C24_SignedSwap ==
    /\ entry = "swap_signed" /\ ctx.tag \in SwapProtocols /\ Len(cpis) = 1
    /\ cpis[1].signers = <<"seedA", "seedB">>

----------------------------------------------------------------------------
(* process_instruction *)

\* byte 0 of the instruction data and the payload behind it, read off the input
SelectorByte == instruction_data[1]
OperationPayload == SubSeq(instruction_data, 2, Len(instruction_data))

C25_DepositRoute ==
    /\ op = "entrypoint" /\ instruction_data # <<>> /\ SelectorByte = 0
    /\ ctx.tag = "Kamino" /\ pc = "done" /\ result = Ok
    /\ amount = <<57600, 1525, 0, 65535>>
    /\ SubSeq(cpis[Len(cpis)].data, 9, 16) = <<0, 225, 245, 5, 0, 0, 255, 255>>

\* the rejected selectors
C25_OtherSelector ==
    /\ op = "entrypoint" /\ pc = "done" /\ Len(instruction_data) > 16 /\ SelectorByte = 2
    /\ result = Err(InvalidInstructionData)
C25_EmptyData ==
    /\ op = "entrypoint" /\ pc = "done" /\ instruction_data = <<>> /\ Len(accounts) > 0
    /\ result = Err(InvalidInstructionData)

----------------------------------------------------------------------------
(* Kamino: the minimum account count *)

\* a direct call of KaminoDepositAccounts::try_from has returned
KaminoParsed == op = "parse" /\ proto = "Kamino" /\ pc = "done"

C26_Accepted ==
    /\ KaminoParsed /\ Len(accounts) = 19 /\ result = Ok
    /\ ctx.fields.scope_oracle = accounts[19]

----------------------------------------------------------------------------
(* Kamino: the obligation refresh *)

\* C27: for every Kamino context produced by try_from, the obligation-refresh CPI's
\* metadata list is [obligation writable, lending market readonly, then each accepted
\* tail reserve readonly in tail order], of length 2 + k <= 15; the account-view
\* array passed with it always has 15 entries, positions 0..2+k match the metadata
\* and every unused position holds a duplicate of the obligation view.
C27_ObligationRefreshLists ==
    ctx.tag = "Kamino" =>
        LET k == Len(ctx.reserve_accounts)
        IN /\ 2 + k <= 15
           /\ \A j \in 1..Len(cpis) :
                 cpis[j].data = <<33, 132, 147, 228, 151, 192, 72, 89>> =>
                    /\ Len(cpis[j].accounts) = 2 + k
                    /\ cpis[j].accounts[1] =
                          [address |-> accounts[3].address, is_writable |-> TRUE, is_signer |-> FALSE]
                    /\ cpis[j].accounts[2] =
                          [address |-> accounts[4].address, is_writable |-> FALSE, is_signer |-> FALSE]
                    /\ \A m \in 1..k :
                          cpis[j].accounts[2 + m] =
                             [address |-> accounts[19 + m].address, is_writable |-> FALSE, is_signer |-> FALSE]
                    /\ Len(cpis[j].account_infos) = 15
                    /\ cpis[j].account_infos[1] = accounts[3]
                    /\ cpis[j].account_infos[2] = accounts[4]
                    /\ \A m \in 1..k : cpis[j].account_infos[2 + m] = accounts[19 + m]
                    /\ \A m \in 1..(2 + k) :
                          cpis[j].account_infos[m].address = cpis[j].accounts[m].address
                    /\ \A m \in (3 + k)..15 : cpis[j].account_infos[m] = accounts[3]

\* two tail reserves: four metadata entries, eleven duplicates of the obligation
C27_Witness ==
    /\ ctx.tag = "Kamino" /\ Len(ctx.reserve_accounts) = 2 /\ Len(cpis) >= 4
    /\ Len(cpis[4].accounts) = 4 /\ Len(cpis[4].account_infos) = 15
    /\ cpis[4].account_infos[5] = accounts[3]
    /\ accounts[3].address # accounts[4].address

\* the cap: thirteen tail reserves fill both buffers
C27_BuffersFull ==
    /\ ctx.tag = "Kamino" /\ Len(ctx.reserve_accounts) = 13 /\ Len(accounts) > 32
    /\ Len(cpis) >= 15 /\ Len(cpis[15].accounts) = 15
    /\ cpis[15].account_infos[15] = accounts[32]

----------------------------------------------------------------------------
(* Heaven: the variable-length instruction data *)

\* the u32 little-endian bytes of n, for n below 2^16
U32Bytes(n) == <<n % 256, n \div 256, 0, 0>>

C28_LongestEvent ==
    /\ ctx.tag = "Heaven" /\ Len(cpis) = 1 /\ swap_data # NoData /\ swap_data.tag = "Heaven"
    /\ Len(swap_data.event) = 256 /\ swap_data.direction = "Buy"
    /\ Len(cpis[1].data) = 284 /\ SubSeq(cpis[1].data, 25, 28) = <<0, 1, 0, 0>>

\* the empty event takes the 28-byte branch
C28_EmptyEvent ==
    /\ ctx.tag = "Heaven" /\ Len(cpis) = 1 /\ swap_data # NoData /\ swap_data.tag = "Heaven"
    /\ swap_data.event = <<>> /\ Len(cpis[1].data) = 28

\* one byte below the longest event: length bytes [255, 0, 0, 0]
C28_Event255 ==
    /\ ctx.tag = "Heaven" /\ Len(cpis) = 1 /\ swap_data # NoData /\ swap_data.tag = "Heaven"
    /\ Len(swap_data.event) = 255
    /\ Len(cpis[1].data) = 283 /\ SubSeq(cpis[1].data, 25, 28) = <<255, 0, 0, 0>>

----------------------------------------------------------------------------
(* Detection: a matching protocol with too few accounts *)

\* the protocols the detection of the current path goes through
DetectionSet ==
    IF op \in {"swap", "process", "free"} THEN SwapProtocols
    ELSE IF op = "deposit" THEN DepositProtocols
    ELSE {}

\* try_from_swap_context / try_from_deposit_context has been called and has returned
DetectionReturned ==
    /\ pc \notin {"start", "detect", "free_swap_signed"}
    /\ op = "process" => Len(instruction_data) >= 16

\* C29: when account 0 equals an enabled protocol X's program address but the slice
\* is shorter than X's minimum, try_from_swap_context / try_from_deposit_context
\* returns NotEnoughAccountKeys: it does not fall through to later protocols in the
\* detection order, does not return InvalidAccountData, and the call ends there.
C29_ShortSliceStops ==
    \A X \in enabled \cap DetectionSet :
        (/\ DetectionReturned
         /\ accounts # <<>>
         /\ accounts[1].address = ProgramId(X)
         /\ Len(accounts) < ClaimedMinimum(X)) =>
            /\ result = Err("NotEnoughAccountKeys")
            /\ ctx = NoCtx
            /\ pc = "done"
            /\ cpis = <<>>

\* Heaven's address in front of 16 accounts, later protocols enabled as well
C29_Witness ==
    /\ op = "swap" /\ pc = "done" /\ Len(accounts) = 16
    /\ accounts[1].address = HEAVEN_PROGRAM_ID
    /\ {"Heaven", "Aldrin", "Gamma"} \subseteq enabled
    /\ result = Err("NotEnoughAccountKeys")

\* the lending program's address in front of 18 accounts: Jupiter Earn, which 18
\* accounts would satisfy, is not tried
C29_DepositNoFallThrough ==
    /\ op = "deposit" /\ pc = "done" /\ Len(accounts) = 18
    /\ accounts[1].address = KAMINO_LEND_PROGRAM_ID
    /\ enabled = {"Kamino", "Jupiter"}
    /\ result = Err("NotEnoughAccountKeys") /\ ctx = NoCtx

\* the same through the entry glue
C29_ThroughGlue ==
    /\ op = "process" /\ pc = "done" /\ Len(instruction_data) >= 16
    /\ Len(accounts) = 10 /\ accounts[1].address = ALDRIN_PROGRAM_ID
    /\ result = Err("NotEnoughAccountKeys")

----------------------------------------------------------------------------
(* The entry glue: which error wins *)

\* the bytes a route of the entry glue is given, read off the input
GlueData == IF op = "entrypoint" THEN SubSeq(instruction_data, 2, Len(instruction_data))
            ELSE instruction_data

\* the route taken: swap::process or deposit::process
SwapRoute ==
    \/ op = "process"
    \/ op = "entrypoint" /\ instruction_data # <<>> /\ instruction_data[1] = 1
DepositRoute == op = "entrypoint" /\ instruction_data # <<>> /\ instruction_data[1] = 0

Proceeds == [status |-> "Proceeds", err |-> ""]

\* the first check that fails when the swap route checks the amount header, then
\* the accounts, then the payload
SwapRouteVerdict ==
    IF Len(GlueData) < 16 THEN Err("InvalidInstructionData")
    ELSE LET a == try_from_swap_context(accounts, enabled)
         IN IF a.res # Ok THEN a.res
            ELSE LET d == SwapDataTryFrom(a.ctx.tag, SubSeq(GlueData, 17, Len(GlueData)))
                 IN IF d.res # Ok THEN d.res ELSE Proceeds

\* the first check that fails when the deposit route checks the accounts, then the amount
DepositRouteVerdict ==
    LET a == try_from_deposit_context(accounts, enabled)
    IN IF a.res # Ok THEN a.res
       ELSE IF Len(GlueData) < 8 THEN Err("InvalidInstructionData")
       ELSE Proceeds

\* C30: the entry glue checks its inputs in a fixed order that decides which error
\* wins: the swap path validates the 16-byte amount header first, then detects the
\* protocol and parses accounts, then parses the protocol payload; the deposit path
\* detects the protocol and parses accounts first and only then validates the 8-byte
\* amount.  Short data with an empty account list yields InvalidInstructionData on
\* the swap path and NotEnoughAccountKeys on the deposit path.
C30_CheckOrder ==
    pc = "done" =>
        /\ SwapRoute =>
              IF SwapRouteVerdict = Proceeds
              THEN /\ ctx # NoCtx /\ swap_data.tag = ctx.tag
                   /\ cpis # <<>> => result = cpi_results[Len(cpis)]
              ELSE result = SwapRouteVerdict /\ cpis = <<>>
        /\ DepositRoute =>
              IF DepositRouteVerdict = Proceeds
              THEN /\ ctx # NoCtx /\ amount = from_le_bytes(SubSeq(GlueData, 1, 8))
                   /\ cpis # <<>> => result = cpi_results[Len(cpis)]
              ELSE result = DepositRouteVerdict /\ cpis = <<>>
        /\ (SwapRoute /\ Len(GlueData) < 16 /\ accounts = <<>>) =>
              result = Err("InvalidInstructionData")
        /\ (DepositRoute /\ Len(GlueData) < 8 /\ accounts = <<>>) =>
              result = Err("NotEnoughAccountKeys")

\* short data and no accounts on the swap route
C30_Witness ==
    /\ op = "entrypoint" /\ pc = "done" /\ SwapRoute
    /\ Len(GlueData) = 15 /\ accounts = <<>>
    /\ result = Err("InvalidInstructionData")

\* the same on the deposit route
C30_DepositFirst ==
    /\ pc = "done" /\ DepositRoute
    /\ Len(GlueData) = 7 /\ accounts = <<>>
    /\ result = Err("NotEnoughAccountKeys")

\* accounts that fail and a payload that would fail: the accounts win on the swap route
C30_AccountsBeforePayload ==
    /\ pc = "done" /\ SwapRoute /\ Len(accounts) = 10
    /\ accounts[1].address = ALDRIN_PROGRAM_ID
    /\ SubSeq(GlueData, 17, Len(GlueData)) = <<2>>
    /\ result = Err("NotEnoughAccountKeys")

\* every check passes and the adapter is called with what was parsed
C30_AllChecksPass ==
    /\ pc = "done" /\ DepositRoute /\ DepositRouteVerdict = Proceeds
    /\ cpis # <<>> /\ result = Ok

----------------------------------------------------------------------------
(* Heaven: the length limit of the protocol-specific bytes *)

\* C21: a swap routed to Heaven whose protocol-specific bytes (extra) are longer
\* than 256 bytes fails with InvalidInstructionData and issues no CPI.
C21_HeavenExtraOver256 ==
    /\ op \in {"process", "context"} /\ ctx.tag = "Heaven"
    /\ Len(extra_data) > 256 /\ pc = "done"
    => /\ result = Err(InvalidInstructionData)
       /\ cpis = <<>>

\* what the code does with 257 bytes: byte 0 is the direction, the 256 bytes behind
\* it are the event, and the CPI is issued with the whole event
C21_Extra257Accepted ==
    /\ op = "process" /\ ctx.tag = "Heaven" /\ Len(extra_data) = 257 /\ pc = "done"
    /\ Len(cpis) = 1 /\ Len(cpis[1].data) = 28 + 256
    /\ SubSeq(cpis[1].data, 29, 284) = SliceFrom(extra_data, 1)

\* from 258 bytes on the swap is rejected before any CPI
C21_Extra258Rejected ==
    /\ op = "process" /\ ctx.tag = "Heaven" /\ Len(extra_data) = 258 /\ pc = "done"
    /\ result = Err(InvalidInstructionData) /\ cpis = <<>>

----------------------------------------------------------------------------
(* Account metadata and account views of a CPI *)

\* the CPIs whose two account lists are compared: the call of a swap adapter, Jupiter
\* Earn's deposit and the last call of the Kamino sequence
ListsCompared(inv) ==
    \/ ctx.tag \in SwapProtocols \cup {"Jupiter"}
    \/ /\ ctx.tag = "Kamino"
       /\ Len(inv.data) = 16
       /\ SubSeq(inv.data, 1, 8) = <<216, 224, 191, 27, 204, 151, 102, 175>>

\* number of accounts those calls pass on: every account of the context but account 0;
\* the Kamino deposit stops in front of the scope oracle
ListLength(p) == IF p = "Kamino" THEN 17 ELSE Len(FieldNames(p)) - 1

\* C22: for every swap adapter, for Jupiter Earn's deposit and for Kamino's final
\* deposit call, the CPI's account-metadata list and its account-view list have the
\* same length and the same address at every index, and entry m of both is account
\* m + 1 of the input slice: the positional input order with account 0 left out.
C22_MetasMatchViews ==
    \A j \in 1..Len(cpis) :
        ListsCompared(cpis[j]) =>
            /\ Len(cpis[j].accounts) = Len(cpis[j].account_infos)
            /\ Len(cpis[j].accounts) = ListLength(ctx.tag)
            /\ \A m \in 1..Len(cpis[j].accounts) :
                  /\ cpis[j].accounts[m].address = cpis[j].account_infos[m].address
                  /\ cpis[j].account_infos[m] = accounts[m + 1]
                  /\ cpis[j].accounts[m].address = accounts[m + 1].address

\* an Aldrin swap through the entry glue, all addresses distinct
C22_Witness ==
    /\ op = "process" /\ ctx.tag = "Aldrin" /\ pc = "done"
    /\ Len(cpis) = 1 /\ Len(cpis[1].accounts) = 10
    /\ \A m, n \in 1..Len(accounts) : m # n => accounts[m].address # accounts[n].address

\* the last call of a Kamino sequence with one tail reserve
C22_KaminoDeposit ==
    /\ ctx.tag = "Kamino" /\ pc = "done" /\ result = Ok
    /\ Len(ctx.reserve_accounts) = 1 /\ Len(cpis) = 4
    /\ Len(cpis[4].accounts) = 17
    /\ accounts[2].address # accounts[3].address

----------------------------------------------------------------------------
(* The entry path: failures in front of the adapter *)

\* the entry glue, called directly or through process_instruction
EntryPath == op \in {"process", "entrypoint"}

\* positions of the entry path in front of SwapContext::swap / DepositContext::deposit:
\* routing, the amount header, protocol detection with account parsing, payload parsing
ParsingPcs == {"start", "swap_process", "deposit_process", "detect", "swap_data", "deposit_data"}

\* C23: whenever the entry path fails at protocol detection, account-context parsing
\* or payload parsing, it returns at that first failure and no CPI has been issued:
\* up to the end of parsing no CPI exists, a parsing step that sets an error ends
\* the call with that error, and a call that has ended takes no further step.
C23_ParseFailureNoCpi ==
    [][ /\ pc = "done" => FALSE
        /\ (EntryPath /\ pc \in ParsingPcs) =>
              /\ cpis = <<>> /\ cpis' = <<>>
              /\ result = Pending
              /\ result' # Pending => (pc' = "done" /\ result'.status = "Err")
              /\ result' = Pending => pc' # "done" ]_vars

\* an unknown discriminator byte: accounts detected and parsed, the side byte is 2
C23_Witness ==
    /\ op = "entrypoint" /\ pc = "done" /\ ctx.tag = "Aldrin"
    /\ SliceFrom(instruction_data, 17) = <<2>>
    /\ result = Err(InvalidInstructionData) /\ cpis = <<>>

\* the other failures the entry path can end with
C23_EmptyAccounts ==
    /\ op = "entrypoint" /\ pc = "done" /\ accounts = <<>>
    /\ Len(instruction_data) > 0 /\ instruction_data[1] = 0
    /\ result = Err(NotEnoughAccountKeys) /\ cpis = <<>>
C23_UnknownAccount0 ==
    /\ EntryPath /\ pc = "done" /\ Len(accounts) > 0 /\ accounts[1].address = UnknownProgram
    /\ result = Err(InvalidAccountData) /\ cpis = <<>>
C23_TooFewAccounts ==
    /\ op = "entrypoint" /\ pc = "done" /\ Len(accounts) = 18
    /\ Len(instruction_data) > 0 /\ instruction_data[1] = 0
    /\ accounts[1].address = KAMINO_LEND_PROGRAM_ID
    /\ result = Err(NotEnoughAccountKeys) /\ cpis = <<>>
C23_ShortPayload ==
    /\ op = "entrypoint" /\ pc = "done" /\ ctx.tag = "Kamino" /\ Len(instruction_data) = 8
    /\ result = Err(InvalidInstructionData) /\ cpis = <<>>

====
